---- MODULE Spec2Model ----
(***************************************************************************)
(* Model of the multi-provider generation fallback of ai_jpn_astro:        *)
(*   src/agents/astrologer.py  AstrologerAgent  (hard-fail policy)         *)
(*   src/agents/director.py    DirectorAgent    (safe-default policy)      *)
(* One agent instance is constructed and then serves a bounded number of   *)
(* generate requests.  A step of a request runs from one call of an        *)
(* external backend to the next, with all the local handling in between.   *)
(***************************************************************************)
EXTENDS Integers, Sequences, FiniteSets, TLC

\* ------------------------------------------------------------------ bounds
\* generate requests served by one agent instance
MaxRequests == 2
\* length of the longest ranked candidate list the catalog yields
MaxModels == 2
\* calls of _switch_to_backup_key in a row (RotationSpec)
MaxAdvance == 8
\* entries of the longest model catalog (RankingSpec)
MaxCatalog == 6
\* characters of the longest run of plain text in a title (MetadataSpec)
MaxTitleLen == 90
\* elements of the longest array a backend returns (MetadataSpec)
MaxList == 3
\* characters of the longest string value of a mapping (RoundTripSpec)
MaxStr == 3
\* days the clock can show when _get_mock_data is called (MockSpec)
MaxDay == 3
\* answers the primary backend has ready for one request; every call after
\* them fails (LabelSpec)
MaxAnswers == 3
\* calls of _switch_to_backup_key by one thread (ConcurrentSpec)
MaxCalls == 2
\* tokens of a raw provider text given to both cleanups (CleanupSpec)
MaxRaw == 4
\* characters of an eto name and of a date string (UploaderSpec)
MaxEtoLen == 30
MaxDateLen == 14
\* seconds of audio of one section of a Daily video (TrimSpec)
MaxSectionDur == 25

\* ------------------------------------------------------- program constants
\* astrologer.py keeps the top 5 of the ranking, director.py the top 3
AstroTopN == 5
DirectorTopN == 3
\* create_screenplay: for _loop in range(2)
DirectorLoops == 2
\* generate_viral_metadata: if len(title) > 80: title = title[:77] + "..."
TitleMax == 80
TitleCut == 77
\* generate_metadata: if len(title) > 80: title = title[:76] + "... #shorts"
MetaTitleMax == 80
MetaTitleCut == 76
\* produce_video_from_script: TARGET_DURATION of a Daily video and of the others
TargetDaily == 58
TargetOther == 600

Min(a, b) == IF a < b THEN a ELSE b

\* --------------------------------------------------------------- raw text
\* A raw provider text is a sequence of tokens.  "FENCE" is the code fence
\* ```, "json" the word json (so ```json is <<"FENCE", "json">>), " " white
\* space, "w" a word of prose.  A value token is the text of one JSON value
\* ("str:x" is the JSON string "x").  "{k:" and ":k}" open and close an
\* object with one string value, whose characters are the tokens in between.
Fence == "FENCE"
ContentTokens == {Fence, "json", " ", "w"}
ValueTokens == {"{hook:x,love:y}", "{}", "[{hook:x}]", "[1,2]", "[]",
                "str:x", "7", "0", "null"}

\* Python values: the parsed JSON values and None
NoneVal == [type |-> "None", body |-> <<>>]

ValueOf(tok) ==
    CASE tok = "{hook:x,love:y}" -> [type |-> "object", body |-> <<"hook", "x", "love", "y">>]
      [] tok = "{}"              -> [type |-> "object", body |-> <<>>]
      [] tok = "[{hook:x}]"      -> [type |-> "array",  body |-> <<"{hook:x}">>]
      [] tok = "[1,2]"           -> [type |-> "array",  body |-> <<"1", "2">>]
      [] tok = "[]"              -> [type |-> "array",  body |-> <<>>]
      [] tok = "str:x"           -> [type |-> "string", body |-> <<"x">>]
      [] tok = "7"               -> [type |-> "number", body |-> <<"7">>]
      [] tok = "0"               -> [type |-> "number", body |-> <<"0">>]
      [] OTHER                   -> [type |-> "null",   body |-> <<>>]

\* Python truthiness (if google_result:)
Truthy(v) ==
    /\ v.type \notin {"None", "null"}
    /\ v.type \in {"object", "array", "string"} => v.body # <<>>
    /\ v.type = "number" => v.body # <<"0">>

IsMapping(v) == v.type = "object"

\* str.strip()
RECURSIVE LStrip(_)
LStrip(t) == IF t # <<>> /\ Head(t) = " " THEN LStrip(Tail(t)) ELSE t

RECURSIVE RStrip(_)
RStrip(t) ==
    IF t # <<>> /\ t[Len(t)] = " " THEN RStrip(SubSeq(t, 1, Len(t) - 1)) ELSE t

Strip(t) == RStrip(LStrip(t))

\* text.replace("```json", ""): one pass from the left, no rescanning
RECURSIVE RemoveFenceJson(_)
RemoveFenceJson(t) ==
    IF t = <<>> THEN <<>>
    ELSE IF Len(t) >= 2 /\ t[1] = Fence /\ t[2] = "json"
         THEN RemoveFenceJson(SubSeq(t, 3, Len(t)))
         ELSE <<Head(t)>> \o RemoveFenceJson(Tail(t))

\* text.replace("```", "")
RemoveFence(t) == SelectSeq(t, LAMBDA x : x # Fence)

\* "```json" in text, "```" in text
HasFenceJson(t) == \E i \in 1..(Len(t) - 1) : t[i] = Fence /\ t[i + 1] = "json"
HasFence(t) == \E i \in 1..Len(t) : t[i] = Fence

\* text.split("```")[0]
RECURSIVE BeforeFence(_)
BeforeFence(t) ==
    IF t = <<>> \/ Head(t) = Fence THEN <<>>
    ELSE <<Head(t)>> \o BeforeFence(Tail(t))

\* the text after the first "```json" / after the first "```"
RECURSIVE AfterFenceJson(_)
AfterFenceJson(t) ==
    IF Len(t) < 2 THEN <<>>
    ELSE IF t[1] = Fence /\ t[2] = "json" THEN SubSeq(t, 3, Len(t))
         ELSE AfterFenceJson(Tail(t))

RECURSIVE AfterFence(_)
AfterFence(t) ==
    IF t = <<>> THEN <<>>
    ELSE IF Head(t) = Fence THEN Tail(t) ELSE AfterFence(Tail(t))

\* json.loads(text): leading and trailing white space is allowed; anything
\* but exactly one JSON value raises JSONDecodeError
json_loads(t) ==
    LET s == Strip(t) IN
    IF Len(s) = 1 /\ s[1] \in ValueTokens
    THEN [ok |-> TRUE, value |-> ValueOf(s[1])]
    ELSE IF /\ Len(s) >= 2 /\ s[1] = "{k:" /\ s[Len(s)] = ":k}"
            /\ \A i \in 2..(Len(s) - 1) : s[i] \in ContentTokens
         THEN [ok |-> TRUE,
               value |-> [type |-> "object", body |-> <<"k">> \o SubSeq(s, 2, Len(s) - 1)]]
         ELSE [ok |-> FALSE, value |-> NoneVal]

\* _generate_script: raw_content.replace('```json','').replace('```','').strip()
CleanJson(raw) == Strip(RemoveFence(RemoveFenceJson(raw)))

\* _generate_with_google_ai: the text between the first pair of fences
GoogleExtract(text) ==
    IF HasFenceJson(text) THEN BeforeFence(AfterFenceJson(text))
    ELSE IF HasFence(text) THEN BeforeFence(AfterFence(text))
    ELSE text

\* ------------------------------------------------------ backend responses
\* The texts a backend may return: each JSON value bare, some of them
\* fenced with "```json" and with "```", an object whose string holds a
\* fence, prose that is no JSON, and a fenced object after a preamble.
Bare(v) == <<v>>
FencedJson(body) == <<Fence, "json", " ">> \o body \o <<" ", Fence>>
FencedPlain(body) == <<Fence, " ">> \o body \o <<" ", Fence>>
FenceInString == <<"{k:", "w", Fence, "w", ":k}">>

Texts ==
    {Bare(v) : v \in ValueTokens}
      \cup {FencedJson(Bare(v)) : v \in {"{hook:x,love:y}", "{}", "[{hook:x}]", "null"}}
      \cup {FencedPlain(Bare(v)) : v \in {"{hook:x,love:y}", "{}"}}
      \cup { FenceInString,
             FencedJson(FenceInString),
             <<"w", " ", "w">>,
             <<"w", " ">> \o FencedJson(Bare("{hook:x,love:y}")) }

\* A backend call returns a text or raises an exception e.  Of str(e) the
\* code reads only three things: s400 is  "400" in str(e);  s429 is
\* "429" in str(e) or "rate limit" in str(e).lower();  daily is
\* "free-models-per-day" in str(e).lower() or "Remaining': '0'" in str(e).
Responses ==
    [kind : {"text"}, text : Texts, s400 : {FALSE}, s429 : {FALSE}, daily : {FALSE}]
      \cup [kind : {"error"}, text : {<<>>}, s400 : BOOLEAN, s429 : BOOLEAN, daily : BOOLEAN]

NoResponse == [kind |-> "none", text |-> <<>>, s400 |-> FALSE, s429 |-> FALSE, daily |-> FALSE]

\* how one backend call ended, for the history of a request
Outcome(r, parsed) ==
    IF r.kind = "text" THEN (IF parsed.ok THEN "ok" ELSE "badjson")
    ELSE IF r.s429 THEN "rate_limit"
    ELSE "failure"

\* ------------------------------------------------------------------ state
VARIABLES
    slept,              \* seconds of the last time.sleep after the last backend call (0: none)
    agent,              \* "astrologer" or "director": the class of the instance
    api_keys,           \* self.api_keys: the loaded OpenRouter credentials
    google_model,       \* self.google_model is not None
    models,             \* self.models: the ranked candidate list
    current_key_index,  \* self.current_key_index (counted from 0)
    client,             \* the credential self.client was built from, or "None"
    pc,                 \* where the instance is
    model_i,            \* position of the for loop in self.models (from 1)
    tried_backup,       \* local tried_backup of the running request
    daily_limit_hit,    \* local daily_limit_hit (create_screenplay)
    loop_i,             \* local _loop (create_screenplay)
    errors,             \* len(errors) (_generate_script)
    result,             \* the value the request returned
    result_from,        \* who gave it: "candidate", "secondary", "safe_default"
    nreq,               \* requests started on this instance
    \* history of the running request
    tried,              \* <<credential, model>> pairs given a backend call
    seen,               \* <<credential, outcome>> pairs of the backend calls
    passes,             \* times the for loop over self.models was entered
    google_resp,        \* what the secondary provider answered
    start_index,        \* current_key_index when the request began
    \* history of the credential rotation on its own (RotationSpec)
    advCalls,           \* calls of _switch_to_backup_key
    advTrue,            \* calls of _switch_to_backup_key that returned True
    \* one call of a function of the program that reads no state of the agent
    input,              \* the arguments of the call and what the network answers
    output,             \* how the call ended, and the value it returned
    \* two threads that run requests on the one instance (ConcurrentSpec)
    threads             \* where each is in _switch_to_backup_key

config == <<agent, api_keys, google_model, models>>
locals == <<model_i, tried_backup, daily_limit_hit, loop_i, errors>>
history == <<tried, seen, passes, google_resp, start_index>>
call == <<input, output, threads, slept>>
vars == <<agent, api_keys, google_model, models, current_key_index, client, pc,
          model_i, tried_backup, daily_limit_hit, loop_i, errors, result,
          result_from, nreq,
          tried, seen, passes, google_resp, start_index, advCalls, advTrue,
          input, output, threads, slept>>

\* the threads, and a thread outside _switch_to_backup_key: calls counts
\* its calls, checked is the index its test of line 80 read, loaded the
\* index its += of line 81 read
Threads == {1, 2}
Outside == [pc |-> "idle", calls |-> 0, checked |-> 0, loaded |-> 0]

\* a call that has not ended
Pending == [state |-> "pending", value |-> <<>>]

Agents == {"astrologer", "director"}

InitAgent ==
    /\ agent \in Agents
    /\ api_keys = <<>>
    /\ google_model = FALSE
    /\ models = <<>>
    /\ current_key_index = 0
    /\ client = "None"
    /\ pc = "new"
    /\ model_i = 1
    /\ tried_backup = FALSE
    /\ daily_limit_hit = FALSE
    /\ loop_i = 0
    /\ errors = 0
    /\ result = NoneVal
    /\ result_from = "none"
    /\ nreq = 0
    /\ tried = {}
    /\ seen = {}
    /\ passes = 0
    /\ google_resp = NoResponse
    /\ start_index = 0
    /\ advCalls = 0
    /\ advTrue = 0
    /\ threads = [t \in Threads |-> Outside]
    /\ slept = 0

Init == InitAgent /\ input = <<>> /\ output = Pending

\* ----------------------------------------------------------- construction
\* the list __init__ builds by appending each credential that is set; the
\* credentials are opaque, "key1" is the first of the list
KeyList(primary, backup, backup2) ==
    LET n == (IF primary THEN 1 ELSE 0) + (IF backup THEN 1 ELSE 0)
               + (IF backup2 THEN 1 ELSE 0)
    IN  SubSeq(<<"key1", "key2", "key3">>, 1, n)

\* mutant: model discovery runs, and self.models is set, without any key
ConstructRanksWithoutKeys(primary, backup, backup2, googleKey, available, n) ==
    /\ pc = "new"
    /\ agent = "director" => ~backup2
    /\ n <= (IF agent = "astrologer" THEN AstroTopN ELSE DirectorTopN)
    /\ LET keys == KeyList(primary, backup, backup2)
           google == IF agent = "astrologer" THEN available
                     ELSE googleKey /\ available
       IN
       /\ api_keys' = keys
       /\ google_model' = google
       /\ IF keys = <<>> /\ ~google
          THEN /\ pc' = "config_error"
               /\ UNCHANGED <<models, client>>
          ELSE /\ pc' = "idle"
               /\ client' = IF keys # <<>> THEN keys[1] ELSE "None"
               /\ models' = [i \in 1..n |-> i]
    /\ current_key_index' = 0
    /\ UNCHANGED <<agent, locals, result, result_from, nreq, history, advCalls,
                   advTrue, call>>

\* AstrologerAgent.__init__ / DirectorAgent.__init__.  primary, backup and
\* backup2 say which credentials the arguments or the environment give (the
\* director reads no third one), googleKey whether GOOGLE_AI_API_KEY is set,
\* available is GOOGLE_AI_AVAILABLE, n the length of the ranking that model
\* discovery returns.  The astrologer has a built-in default for the Google
\* key, so its google_model is missing only when the import failed.
Construct(primary, backup, backup2, googleKey, available, n) ==
    /\ pc = "new"
    /\ agent = "director" => ~backup2
    /\ n <= (IF agent = "astrologer" THEN AstroTopN ELSE DirectorTopN)
    /\ LET keys == KeyList(primary, backup, backup2)
           google == IF agent = "astrologer" THEN available
                     ELSE googleKey /\ available
       IN
       /\ api_keys' = keys
       /\ google_model' = google
       /\ IF keys = <<>> /\ ~google
          THEN /\ pc' = "config_error"
               /\ UNCHANGED <<models, client>>
          ELSE /\ pc' = "idle"
               /\ client' = IF keys # <<>> THEN keys[1] ELSE "None"
               /\ models' = IF keys # <<>> THEN [i \in 1..n |-> i] ELSE <<>>
    /\ current_key_index' = 0
    /\ UNCHANGED <<agent, locals, result, result_from, nreq, history, advCalls,
                   advTrue, call>>

\* mutants of _switch_to_backup_key: one that stops one credential early,
\* one that wraps around to the first credential when it has no more
switch_stops_early(index, keys, cl) ==
    IF index < Len(keys) - 2
    THEN [ret |-> TRUE, index |-> index + 1, client |-> keys[index + 2]]
    ELSE [ret |-> FALSE, index |-> index, client |-> cl]

switch_wraps_around(index, keys, cl) ==
    IF index < Len(keys) - 1
    THEN [ret |-> TRUE, index |-> index + 1, client |-> keys[index + 2]]
    ELSE [ret |-> FALSE, index |-> 0, client |-> keys[1]]

\* _switch_to_backup_key: the value returned, and the index and client after
\* mutant: the index advances and the client is left as it was
switch_keeps_client(index, keys, cl) ==
    IF index < Len(keys) - 1
    THEN [ret |-> TRUE, index |-> index + 1, client |-> cl]
    ELSE [ret |-> FALSE, index |-> index, client |-> cl]

switch_to_backup_key(index, keys, cl) ==
    IF index < Len(keys) - 1
    THEN [ret |-> TRUE, index |-> index + 1, client |-> keys[index + 2]]
    ELSE [ret |-> FALSE, index |-> index, client |-> cl]

\* what every request resets when it begins
BeginRequest ==
    /\ pc = "idle"
    /\ nreq < MaxRequests
    /\ nreq' = nreq + 1
    /\ result' = NoneVal
    /\ result_from' = "none"
    /\ tried' = {}
    /\ seen' = {}
    /\ google_resp' = NoResponse
    /\ start_index' = current_key_index
    /\ slept' = 0

\* the history of one backend call on the candidate self.models[model_i]
RecordCall(r, parsed) ==
    /\ tried' = tried \cup {<<client, models[model_i]>>}
    /\ seen' = seen \cup {<<client, Outcome(r, parsed)>>}

\* ------------------------------------------- AstrologerAgent._generate_script
\* mutant: every request starts again from the first credential
GenerateScriptBeginResetsKey ==
    /\ agent = "astrologer"
    /\ BeginRequest
    /\ errors' = 0
    /\ tried_backup' = FALSE
    /\ model_i' = 1
    /\ passes' = 1
    /\ pc' = "for"
    /\ current_key_index' = 0
    /\ client' = IF api_keys # <<>> THEN api_keys[1] ELSE "None"
    /\ UNCHANGED <<config, daily_limit_hit, loop_i, advCalls, advTrue, input, output, threads>>

\* lines 176-179: errors = [], tried_backup = False, while True
GenerateScriptBegin ==
    /\ agent = "astrologer"
    /\ BeginRequest
    /\ errors' = 0
    /\ tried_backup' = FALSE
    /\ model_i' = 1
    /\ passes' = 1
    /\ pc' = "for"
    /\ UNCHANGED <<config, current_key_index, client, daily_limit_hit, loop_i,
                   advCalls, advTrue, input, output, threads>>

\* mutant: the for-else raises at once, without the final fallback
GenerateScriptForModelSkipsGoogle ==
    /\ agent = "astrologer"
    /\ pc = "for"
    /\ pc' = IF model_i <= Len(models) THEN "json_call" ELSE "raised"
    /\ slept' = IF model_i <= Len(models) THEN 120 ELSE slept
    /\ UNCHANGED <<config, current_key_index, client, locals, result,
                   result_from, nreq, history, advCalls, advTrue, input, output, threads>>

\* line 180: the next candidate (after the 120 s guard sleep), or the
\* for-else of lines 232-234 that leaves the while loop
GenerateScriptForModel ==
    /\ agent = "astrologer"
    /\ pc = "for"
    /\ pc' = IF model_i <= Len(models) THEN "json_call" ELSE "google"
    /\ slept' = IF model_i <= Len(models) THEN 120 ELSE slept
    /\ UNCHANGED <<config, current_key_index, client, locals, result,
                   result_from, nreq, history, advCalls, advTrue, input, output, threads>>

\* mutant: a failure that is no rate limit leaves the for loop
GenerateScriptFailureGivesUp(rl) ==
    LET sw == switch_to_backup_key(current_key_index, api_keys, client) IN
    IF rl /\ ~tried_backup
    THEN /\ current_key_index' = sw.index
         /\ client' = sw.client
         /\ IF sw.ret
            THEN /\ tried_backup' = TRUE
                 /\ errors' = 0
                 /\ model_i' = 1
                 /\ passes' = passes + 1
            ELSE /\ errors' = errors + 1
                 /\ model_i' = model_i + 1
                 /\ UNCHANGED <<tried_backup, passes>>
         /\ pc' = "for"
    ELSE /\ errors' = errors + 1
         /\ model_i' = Len(models) + 1
         /\ pc' = "for"
         /\ UNCHANGED <<tried_backup, passes, current_key_index, client>>

\* mutant: tried_backup is not set after a rotation
GenerateScriptFailureForgetsBackup(rl) ==
    LET sw == switch_to_backup_key(current_key_index, api_keys, client) IN
    IF rl /\ ~tried_backup
    THEN /\ current_key_index' = sw.index
         /\ client' = sw.client
         /\ IF sw.ret
            THEN /\ errors' = 0
                 /\ model_i' = 1
                 /\ passes' = passes + 1
                 /\ UNCHANGED tried_backup
            ELSE /\ errors' = errors + 1
                 /\ model_i' = model_i + 1
                 /\ UNCHANGED <<tried_backup, passes>>
         /\ pc' = "for"
    ELSE /\ errors' = errors + 1
         /\ model_i' = model_i + 1
         /\ pc' = "for"
         /\ UNCHANGED <<tried_backup, passes, current_key_index, client>>

\* mutant: after a rotation the loop goes on with the next candidate
GenerateScriptFailureNoRestart(rl) ==
    LET sw == switch_to_backup_key(current_key_index, api_keys, client) IN
    IF rl /\ ~tried_backup
    THEN /\ current_key_index' = sw.index
         /\ client' = sw.client
         /\ tried_backup' = sw.ret
         /\ errors' = errors + 1
         /\ model_i' = model_i + 1
         /\ UNCHANGED passes
         /\ pc' = "for"
    ELSE /\ errors' = errors + 1
         /\ model_i' = model_i + 1
         /\ pc' = "for"
         /\ UNCHANGED <<tried_backup, passes, current_key_index, client>>

\* lines 218-231: the except branch of one candidate.  rl is
\* "429" in error_str or "rate limit" in error_str.lower()
GenerateScriptFailure(rl) ==
    LET sw == switch_to_backup_key(current_key_index, api_keys, client) IN
    IF rl /\ ~tried_backup
    THEN /\ current_key_index' = sw.index
         /\ client' = sw.client
         /\ IF sw.ret
            THEN /\ tried_backup' = TRUE
                 /\ errors' = 0
                 /\ model_i' = 1
                 /\ passes' = passes + 1
            ELSE /\ errors' = errors + 1
                 /\ model_i' = model_i + 1
                 /\ UNCHANGED <<tried_backup, passes>>
         /\ pc' = "for"
    ELSE /\ errors' = errors + 1
         /\ model_i' = model_i + 1
         /\ pc' = "for"
         /\ UNCHANGED <<tried_backup, passes, current_key_index, client>>

\* lines 214-216 after a call returned raw_content r.text: clean, parse and
\* return; a JSONDecodeError (whose message holds "429" when p429) goes to
\* the except branch
GenerateScriptParse(r, p429) ==
    LET parsed == json_loads(CleanJson(r.text)) IN
    /\ RecordCall(r, parsed)
    /\ IF parsed.ok
       THEN /\ pc' = "returned"
            /\ result' = parsed.value
            /\ result_from' = "candidate"
            /\ UNCHANGED <<current_key_index, client, locals, passes>>
       ELSE /\ GenerateScriptFailure(p429)
            /\ UNCHANGED <<result, result_from, daily_limit_hit, loop_i>>

\* lines 189-212: the call in JSON mode; an exception with "400" in it
\* leads to the plain-text call, any other is raised to line 218
GenerateScriptJsonCall(r, p429) ==
    /\ agent = "astrologer"
    /\ pc = "json_call"
    /\ r.kind = "error" => ~p429
    /\ IF r.kind = "text"
       THEN GenerateScriptParse(r, p429)
       ELSE /\ RecordCall(r, [ok |-> FALSE, value |-> NoneVal])
            /\ IF r.s400
               THEN /\ pc' = "plain_call"
                    /\ UNCHANGED <<current_key_index, client, locals, passes>>
               ELSE /\ GenerateScriptFailure(r.s429)
                    /\ UNCHANGED <<daily_limit_hit, loop_i>>
            /\ UNCHANGED <<result, result_from>>
    /\ slept' = 0
    /\ UNCHANGED <<config, nreq, google_resp, start_index, advCalls, advTrue,
                   input, output, threads>>

\* lines 203-210: the plain-text retry; whatever it raises reaches line 218
GenerateScriptPlainCall(r, p429) ==
    /\ agent = "astrologer"
    /\ pc = "plain_call"
    /\ r.kind = "error" => ~p429
    /\ IF r.kind = "text"
       THEN GenerateScriptParse(r, p429)
       ELSE /\ RecordCall(r, [ok |-> FALSE, value |-> NoneVal])
            /\ GenerateScriptFailure(r.s429)
            /\ UNCHANGED <<result, result_from, daily_limit_hit, loop_i>>
    /\ slept' = 0
    /\ UNCHANGED <<config, nreq, google_resp, start_index, advCalls, advTrue,
                   input, output, threads>>

\* AstrologerAgent._generate_with_google_ai (lines 87-111), for the answer r
\* of google_model.generate_content
AstroGoogleResult(r) ==
    IF ~google_model THEN NoneVal
    ELSE IF r.kind # "text" THEN NoneVal
    ELSE LET parsed == json_loads(Strip(GoogleExtract(r.text))) IN
         IF parsed.ok THEN parsed.value ELSE NoneVal

\* _get_mock_data (lines 246-307): the canned content, which no backend
\* gives; the only call of it is the comment of line 244
get_mock_data == [type |-> "object", body |-> <<"hook", "mock">>]

\* mutant: line 244 as it was before it became a comment
GenerateScriptGoogleFallbackMock(r) ==
    /\ agent = "astrologer"
    /\ pc = "google"
    /\ ~google_model => r = CHOOSE x \in Responses : TRUE
    /\ google_resp' = IF google_model THEN r ELSE NoResponse
    /\ LET google_result == AstroGoogleResult(r) IN
       IF Truthy(google_result)
       THEN pc' = "returned" /\ result' = google_result /\ result_from' = "secondary"
       ELSE pc' = "returned" /\ result' = get_mock_data /\ result_from' = "mock"
    /\ slept' = IF google_model THEN 0 ELSE slept
    /\ UNCHANGED <<config, current_key_index, client, locals, nreq, tried, seen,
                   passes, start_index, advCalls, advTrue, input, output, threads>>

\* lines 236-243: the final fallback and the raise
GenerateScriptGoogleFallback(r) ==
    /\ agent = "astrologer"
    /\ pc = "google"
    /\ ~google_model => r = CHOOSE x \in Responses : TRUE
    /\ google_resp' = IF google_model THEN r ELSE NoResponse
    /\ LET google_result == AstroGoogleResult(r) IN
       IF Truthy(google_result)
       THEN pc' = "returned" /\ result' = google_result /\ result_from' = "secondary"
       ELSE pc' = "raised" /\ UNCHANGED <<result, result_from>>
    /\ slept' = IF google_model THEN 0 ELSE slept
    /\ UNCHANGED <<config, current_key_index, client, locals, nreq, tried, seen,
                   passes, start_index, advCalls, advTrue, input, output, threads>>

\* the request is over: the caller has the value or the exception, and the
\* locals of the call are gone
ReturnToCaller ==
    /\ pc \in {"returned", "raised"}
    /\ pc' = "idle"
    /\ model_i' = 1
    /\ tried_backup' = FALSE
    /\ daily_limit_hit' = FALSE
    /\ loop_i' = 0
    /\ errors' = 0
    /\ result' = NoneVal
    /\ result_from' = "none"
    /\ tried' = {}
    /\ seen' = {}
    /\ passes' = 0
    /\ google_resp' = NoResponse
    /\ start_index' = current_key_index
    /\ slept' = 0
    /\ UNCHANGED <<config, current_key_index, client, nreq, advCalls, advTrue,
                   input, output, threads>>

\* ------------------------------------------ DirectorAgent.create_screenplay
Sections == <<"hook", "love", "career", "money", "health", "lucky_item">>

\* the dict of lines 94-97 and the dict of lines 257-267: mood, zen, scenes,
\* the text of the scenes ("cherry": the one text of line 96, "torii": the
\* six texts of lines 260-265) and the keys of scenes
GoogleFailureScreenplay ==
    [type |-> "object", body |-> <<"mood", "zen", "scenes", "cherry">> \o Sections]
FallbackScreenplay ==
    [type |-> "object", body |-> <<"mood", "zen", "scenes", "torii">> \o Sections]

\* DirectorAgent._generate_with_google_ai (lines 71-97), for the answer r of
\* google_model.generate_content: an exception of the call or of json.loads
\* returns the dict of lines 94-97
DirectorGoogleResult(r) ==
    IF ~google_model THEN NoneVal
    ELSE IF r.kind # "text" THEN GoogleFailureScreenplay
    ELSE LET parsed == json_loads(Strip(GoogleExtract(r.text))) IN
         IF parsed.ok THEN parsed.value ELSE GoogleFailureScreenplay

\* lines 190-203: with a google_model the priority attempt comes first
CreateScreenplayBegin ==
    /\ agent = "director"
    /\ BeginRequest
    /\ tried_backup' = FALSE
    /\ daily_limit_hit' = FALSE
    /\ loop_i' = 0
    /\ model_i' = 1
    /\ passes' = 0
    /\ pc' = IF google_model THEN "google_first" ELSE "outer"
    /\ UNCHANGED <<config, current_key_index, client, errors, advCalls, advTrue,
                   input, output, threads>>

\* lines 192-200: a truthy google_result is returned after the 60 s sleep
CreateScreenplayGooglePriority(r) ==
    /\ agent = "director"
    /\ pc = "google_first"
    /\ google_resp' = r
    /\ LET google_result == DirectorGoogleResult(r) IN
       IF Truthy(google_result)
       THEN pc' = "returned" /\ result' = google_result /\ result_from' = "secondary"
       ELSE pc' = "outer" /\ UNCHANGED <<result, result_from>>
    /\ slept' = IF Truthy(DirectorGoogleResult(r)) THEN 60 ELSE 0
    /\ UNCHANGED <<config, current_key_index, client, locals, nreq, tried, seen,
                   passes, start_index, advCalls, advTrue, input, output, threads>>

\* mutant: with nothing left to try the call raises, as _generate_script does
CreateScreenplayLoopRaises ==
    /\ agent = "director"
    /\ pc = "outer"
    /\ IF loop_i < DirectorLoops /\ ~daily_limit_hit
       THEN /\ pc' = "for"
            /\ model_i' = 1
            /\ passes' = passes + 1
       ELSE /\ pc' = "raised"
            /\ UNCHANGED <<model_i, passes>>
    /\ UNCHANGED <<config, current_key_index, client, tried_backup,
                   daily_limit_hit, loop_i, errors, nreq, tried, seen,
                   google_resp, start_index, result, result_from, advCalls,
                   advTrue, call>>

\* mutant: the outer loop does not look at daily_limit_hit
CreateScreenplayLoopIgnoresDaily ==
    /\ agent = "director"
    /\ pc = "outer"
    /\ IF loop_i < DirectorLoops
       THEN /\ pc' = "for"
            /\ model_i' = 1
            /\ passes' = passes + 1
            /\ UNCHANGED <<result, result_from>>
       ELSE /\ pc' = "returned"
            /\ result' = FallbackScreenplay
            /\ result_from' = "safe_default"
            /\ UNCHANGED <<model_i, passes>>
    /\ UNCHANGED <<config, current_key_index, client, tried_backup,
                   daily_limit_hit, loop_i, errors, nreq, tried, seen,
                   google_resp, start_index, advCalls, advTrue, call>>

\* lines 205-209 and 255-267: the next of the two outer iterations, or the
\* ultimate fallback
CreateScreenplayLoop ==
    /\ agent = "director"
    /\ pc = "outer"
    /\ IF loop_i < DirectorLoops /\ ~daily_limit_hit
       THEN /\ pc' = "for"
            /\ model_i' = 1
            /\ passes' = passes + 1
            /\ UNCHANGED <<result, result_from>>
       ELSE /\ pc' = "returned"
            /\ result' = FallbackScreenplay
            /\ result_from' = "safe_default"
            /\ UNCHANGED <<model_i, passes>>
    /\ UNCHANGED <<config, current_key_index, client, tried_backup,
                   daily_limit_hit, loop_i, errors, nreq, tried, seen,
                   google_resp, start_index, advCalls, advTrue, call>>

\* line 209: the next candidate, or the for-else of lines 246-253
CreateScreenplayForModel ==
    /\ agent = "director"
    /\ pc = "for"
    /\ IF model_i <= Len(models) /\ ~daily_limit_hit
       THEN pc' = "json_call" /\ UNCHANGED loop_i
       ELSE pc' = "outer" /\ loop_i' = loop_i + 1
    /\ UNCHANGED <<config, current_key_index, client, model_i, tried_backup,
                   daily_limit_hit, errors, result, result_from, nreq, history,
                   advCalls, advTrue, call>>

CreateScreenplayFailureSkips(daily, rl) ==
    LET sw == switch_to_backup_key(current_key_index, api_keys, client) IN
    IF daily
    THEN /\ daily_limit_hit' = TRUE
         /\ loop_i' = loop_i + 1
         /\ pc' = "outer"
         /\ UNCHANGED <<model_i, tried_backup, current_key_index, client>>
    ELSE IF rl /\ ~tried_backup
    THEN /\ current_key_index' = sw.index
         /\ client' = sw.client
         /\ IF sw.ret
            THEN /\ tried_backup' = TRUE
                 /\ loop_i' = loop_i + 1
                 /\ pc' = "outer"
                 /\ UNCHANGED model_i
            ELSE /\ model_i' = model_i + 2
                 /\ pc' = "for"
                 /\ UNCHANGED <<tried_backup, loop_i>>
         /\ UNCHANGED daily_limit_hit
    ELSE /\ model_i' = model_i + 1
         /\ pc' = "for"
         /\ UNCHANGED <<tried_backup, daily_limit_hit, loop_i,
                        current_key_index, client>>

\* lines 227-245: the except branch of one candidate.  daily is the test of
\* line 232, rl the test of line 237
CreateScreenplayFailure(daily, rl) ==
    LET sw == switch_to_backup_key(current_key_index, api_keys, client) IN
    IF daily
    THEN /\ daily_limit_hit' = TRUE
         /\ loop_i' = loop_i + 1
         /\ pc' = "outer"
         /\ UNCHANGED <<model_i, tried_backup, current_key_index, client>>
    ELSE IF rl /\ ~tried_backup
    THEN /\ current_key_index' = sw.index
         /\ client' = sw.client
         /\ IF sw.ret
            THEN /\ tried_backup' = TRUE
                 /\ loop_i' = loop_i + 1
                 /\ pc' = "outer"
                 /\ UNCHANGED model_i
            ELSE /\ model_i' = model_i + 1
                 /\ pc' = "for"
                 /\ UNCHANGED <<tried_backup, loop_i>>
         /\ UNCHANGED daily_limit_hit
    ELSE /\ model_i' = model_i + 1
         /\ pc' = "for"
         /\ UNCHANGED <<tried_backup, daily_limit_hit, loop_i,
                        current_key_index, client>>

\* lines 213-225: the one call in JSON mode; the text is parsed as it is
\* (after the 2 s sleep), and a JSONDecodeError (whose message holds "429"
\* when p429) goes to the except branch like an exception of the call.
\* Sleeps30: the except branch reaches the 30 s sleep of line 244, on a
\* rate-limit error that is no daily limit and rotates nothing
CreateScreenplayCall(r, p429) ==
    /\ agent = "director"
    /\ pc = "json_call"
    /\ r.kind = "error" => ~p429
    /\ LET parsed == IF r.kind = "text" THEN json_loads(r.text)
                     ELSE [ok |-> FALSE, value |-> NoneVal]
           Sleeps30(daily, rl) ==
               /\ ~daily
               /\ rl
               /\ ~(~tried_backup
                    /\ switch_to_backup_key(current_key_index, api_keys, client).ret)
       IN
       /\ RecordCall(r, parsed)
       /\ IF parsed.ok
          THEN /\ pc' = "returned"
               /\ result' = parsed.value
               /\ result_from' = "candidate"
               /\ UNCHANGED <<current_key_index, client, model_i, tried_backup,
                              daily_limit_hit, loop_i>>
          ELSE /\ IF r.kind = "text"
                  THEN CreateScreenplayFailure(FALSE, p429)
                  ELSE CreateScreenplayFailure(r.daily, r.s429)
               /\ UNCHANGED <<result, result_from>>
       /\ slept' = IF parsed.ok THEN 2
                   ELSE IF r.kind = "text"
                        THEN (IF Sleeps30(FALSE, p429) THEN 30 ELSE 2)
                   ELSE IF Sleeps30(r.daily, r.s429) THEN 30 ELSE 0
    /\ UNCHANGED <<config, errors, nreq, passes, google_resp, start_index,
                   advCalls, advTrue, input, output, threads>>

\* ------------------------------------------------------ credential rotation
\* one call of _switch_to_backup_key on the constructed instance
SwitchCall ==
    /\ pc = "idle"
    /\ api_keys # <<>>
    /\ advCalls < MaxAdvance
    /\ LET sw == switch_to_backup_key(current_key_index, api_keys, client) IN
       /\ current_key_index' = sw.index
       /\ client' = sw.client
       /\ advCalls' = advCalls + 1
       /\ advTrue' = advTrue + (IF sw.ret THEN 1 ELSE 0)
    /\ UNCHANGED <<config, pc, locals, result, result_from, nreq, history, call>>

\* ---------------------------------------------------------- specification
Construction ==
    \E primary, backup, backup2, googleKey, available \in BOOLEAN :
        \E n \in 1..MaxModels :
            Construct(primary, backup, backup2, googleKey, available, n)

AstrologerStep ==
    \/ GenerateScriptForModel
    \/ \E r \in Responses, p429 \in BOOLEAN : GenerateScriptJsonCall(r, p429)
    \/ \E r \in Responses, p429 \in BOOLEAN : GenerateScriptPlainCall(r, p429)
    \/ \E r \in Responses : GenerateScriptGoogleFallback(r)

DirectorStep ==
    \/ \E r \in Responses : CreateScreenplayGooglePriority(r)
    \/ CreateScreenplayLoop
    \/ CreateScreenplayForModel
    \/ \E r \in Responses, p429 \in BOOLEAN : CreateScreenplayCall(r, p429)

\* a step of the running request
RequestStep == AstrologerStep \/ DirectorStep

Next ==
    \/ Construction
    \/ GenerateScriptBegin
    \/ CreateScreenplayBegin
    \/ RequestStep
    \/ ReturnToCaller

Spec == Init /\ [][Next]_vars

\* the credential rotation alone: an instance is constructed, and
\* _switch_to_backup_key is called on it again and again
RotationNext == Construction \/ SwitchCall

RotationSpec == Init /\ [][RotationNext]_vars

\* --------------------------------------------------------- model discovery
\* AstrologerAgent.get_best_free_models and
\* DirectorAgent._get_best_free_models.  A model id is a sequence of pieces;
\* the words the scores look for are pieces of their own.
IdGemini == <<"google/", "gemini", "-2.0-", "flash", "-", "exp", ":free">>
IdLlama == <<"meta-llama/", "llama-3", ".3-", "70b", "-instruct:free">>
IdNano == <<"GEMINI", "-", "nano", ":free">>
IdDeepseek == <<"deepseek", "/r1">>
IdPhi == <<"microsoft/", "phi-4">>

\* str.lower on one piece
Lower(piece) == IF piece = "GEMINI" THEN "gemini" ELSE piece

\* word in mid.lower()
InLower(word, mid) == \E i \in 1..Len(mid) : Lower(mid[i]) = word

\* lines 142-154 of astrologer.py
AstroScore(mid) ==
      (IF InLower("gemini", mid) THEN 10 ELSE 0)
    + (IF InLower("llama-3", mid) THEN 8 ELSE 0)
    + (IF InLower("deepseek", mid) THEN 7 ELSE 0)
    + (IF InLower("phi-4", mid) THEN 6 ELSE 0)
    + (IF InLower("flash", mid) THEN 3 ELSE 0)
    + (IF InLower("exp", mid) THEN 2 ELSE 0)
    + (IF InLower("70b", mid) THEN 2 ELSE 0)
    - (IF InLower("nano", mid) \/ InLower("1b", mid) \/ InLower("3b", mid)
       THEN 20 ELSE 0)

\* lines 117-122 of director.py
DirectorScore(mid) ==
      (IF InLower("gemini", mid) THEN 10 ELSE 0)
    + (IF InLower("llama-3", mid) THEN 8 ELSE 0)
    + (IF InLower("flash", mid) THEN 3 ELSE 0)
    - (IF InLower("nano", mid) \/ InLower("1b", mid) THEN 20 ELSE 0)

Score(a, mid) == IF a = "astrologer" THEN AstroScore(mid) ELSE DirectorScore(mid)

\* the lists returned when discovery fails
DefaultModels(a) == IF a = "astrologer" THEN <<IdGemini, IdLlama>> ELSE <<IdGemini>>

\* An entry of the catalog: its "id" if it has one, and its "pricing",
\* which is missing, null or a mapping whose "prompt" and "completion" are
\* missing or a string.
Entry(id, hasId, pricing, prompt, completion) ==
    [id |-> id, hasId |-> hasId, pricing |-> pricing, prompt |-> prompt,
     completion |-> completion]

FreeEntries == {Entry(id, TRUE, "dict", "0", "0") : id \in {IdGemini, IdLlama, IdNano}}

OtherEntries ==
    { Entry(IdDeepseek, TRUE, "dict", "0", "0.000002"),
      Entry(IdPhi, TRUE, "dict", "missing", "0"),
      Entry(IdPhi, TRUE, "missing", "missing", "missing"),
      Entry(IdGemini, TRUE, "null", "missing", "missing"),
      Entry(<<>>, FALSE, "dict", "0", "0") }

InsertAt(s, i, e) == SubSeq(s, 1, i - 1) \o <<e>> \o SubSeq(s, i, Len(s))

\* the catalogs of a length: free entries, and at most one entry of
\* another kind among them
CatalogsOfLen(n) ==
    [1..n -> FreeEntries]
      \cup (IF n = 0 THEN {}
            ELSE {InsertAt(s, i, e) : s \in [1..(n - 1) -> FreeEntries],
                                       i \in 1..n, e \in OtherEntries})

Catalogs == UNION {CatalogsOfLen(n) : n \in 0..MaxCatalog}

\* What requests.get answers: it raises (status "error") or gives a status
\* code; the body of a 200 is no JSON ("invalid"), a mapping without "data"
\* ("no_data"), one whose "data" is null ("null_data") or one whose "data"
\* is the list data.
CatalogResponses ==
    [status : {"error", "500"}, json : {"invalid"}, data : {<<>>}]
      \cup [status : {"200"}, json : {"invalid", "no_data", "null_data"}, data : {<<>>}]
      \cup [status : {"200"}, json : {"list"}, data : Catalogs]

\* a call that returned v
Returned(v) == [state |-> "returned", value |-> v]
\* a call that raised to its caller
Raised == [state |-> "raised", value |-> <<>>]

\* mutant: the filter looks at the price of the input only
IsFreePromptOnly(m) == m.pricing = "dict" /\ m.prompt = "0"

\* line 130: pricing.get("prompt") == "0" and pricing.get("completion") == "0"
\* (a missing "pricing" is {}, whose get gives None)
IsFree(m) == m.pricing = "dict" /\ m.prompt = "0" /\ m.completion = "0"

\* lines 129-131 raise for an entry: None.get of a null "pricing", or
\* m["id"] of a free entry without "id"
EntryRaises(m) == m.pricing = "null" \/ (IsFree(m) /\ ~m.hasId)

\* lines 126-131: free_models
RECURSIVE free_models(_)
free_models(data) ==
    IF data = <<>> THEN <<>>
    ELSE IF IsFree(Head(data)) THEN <<Head(data).id>> \o free_models(Tail(data))
    ELSE free_models(Tail(data))

\* mutant: the scored list is left in the order of the catalog
NoSort(a, ids) == ids

\* where a stable descending sort puts mid in a sorted list: behind every
\* id whose score is not below its own
RECURSIVE InsertByScore(_, _, _)
InsertByScore(a, mid, sorted) ==
    IF sorted = <<>> THEN <<mid>>
    ELSE IF Score(a, Head(sorted)) >= Score(a, mid)
         THEN <<Head(sorted)>> \o InsertByScore(a, mid, Tail(sorted))
         ELSE <<mid>> \o sorted

\* line 159: scored_models.sort(key=lambda x: x[0], reverse=True), which is
\* stable: ids of one score keep the order of the catalog
RECURSIVE SortByScore(_, _)
SortByScore(a, ids) ==
    IF ids = <<>> THEN <<>>
    ELSE InsertByScore(a, ids[Len(ids)], SortByScore(a, SubSeq(ids, 1, Len(ids) - 1)))

\* scored_models[:5] (astrologer.py 161), scored[:3] (director.py 126)
TopN(a) == IF a = "astrologer" THEN AstroTopN ELSE DirectorTopN
Take(s, n) == SubSeq(s, 1, Min(n, Len(s)))

\* the body of the try raises: requests.get, response.json(), the for over
\* a null "data", or an entry
TryRaises(response) ==
    \/ response.status = "error"
    \/ /\ response.status = "200"
       /\ \/ response.json \in {"invalid", "null_data"}
          \/ \E i \in 1..Len(response.data) : EntryRaises(response.data[i])

\* mutant: get_best_free_models without its except clause
get_best_free_models_no_except(a, response) ==
    IF TryRaises(response) THEN Raised
    ELSE IF response.status # "200" THEN Returned(DefaultModels(a))
    ELSE LET best_models == Take(SortByScore(a, free_models(response.data)), TopN(a))
         IN  IF best_models = <<>> THEN Returned(DefaultModels(a))
             ELSE Returned(best_models)

\* get_best_free_models (astrologer.py 113-172) and _get_best_free_models
\* (director.py 99-132) of the agent a, for the answer of the catalog
get_best_free_models(a, response) ==
    IF TryRaises(response) THEN Returned(DefaultModels(a))
    ELSE IF response.status # "200" THEN Returned(DefaultModels(a))
    ELSE LET best_models == Take(SortByScore(a, free_models(response.data)), TopN(a))
         IN  IF best_models = <<>> THEN Returned(DefaultModels(a))
             ELSE Returned(best_models)

\* the call of model discovery
GetBestFreeModels ==
    /\ output = Pending
    /\ output' = get_best_free_models(agent, input)
    /\ UNCHANGED <<config, current_key_index, client, pc, locals, result,
                   result_from, nreq, history, advCalls, advTrue, input, threads, slept>>

\* model discovery alone, for every answer of the catalog
RankingInit == InitAgent /\ input \in CatalogResponses /\ output = Pending
RankingSpec == RankingInit /\ [][GetBestFreeModels]_vars

\* ------------------------------------------------------------------ titles
\* A title is a sequence of pieces [k, n]: n characters of plain text
\* ("text"), of white space ("space"), the dots the code appends ("..."),
\* or a marker in one spelling, whose n is its length.
Piece(k, n) == [k |-> k, n |-> n]
Markers == {"#shorts", "#SHORTS", "#viral", "#Viral"}
MarkerLen(k) == IF k \in {"#shorts", "#SHORTS"} THEN 7 ELSE 6

RECURSIVE TitleLen(_)
TitleLen(t) == IF t = <<>> THEN 0 ELSE Head(t).n + TitleLen(Tail(t))

\* str.lower on a piece
LowerKind(k) ==
    CASE k = "#SHORTS" -> "#shorts"
      [] k = "#Viral"  -> "#viral"
      [] OTHER         -> k

\* marker in title.lower()
InTitleLower(marker, t) == \E i \in 1..Len(t) : LowerKind(t[i].k) = marker

\* title[:n]; a marker that is cut is plain text
RECURSIVE Slice(_, _)
Slice(t, n) ==
    IF t = <<>> \/ n <= 0 THEN <<>>
    ELSE IF Head(t).n <= n THEN <<Head(t)>> \o Slice(Tail(t), n - Head(t).n)
    ELSE <<Piece(IF Head(t).k \in Markers THEN "text" ELSE Head(t).k, n)>>

\* title.rstrip()
RECURSIVE RStripTitle(_)
RStripTitle(t) ==
    IF t # <<>> /\ t[Len(t)].k = "space"
    THEN RStripTitle(SubSeq(t, 1, Len(t) - 1)) ELSE t

\* " #shorts #viral" and " #viral"
ShortsViral == <<Piece("space", 1), Piece("#shorts", 7), Piece("space", 1),
                 Piece("#viral", 6)>>
Viral == <<Piece("space", 1), Piece("#viral", 6)>>

\* mutant: " #viral" is appended to every title that has "#shorts"
ensure_markers_appends_again(title) ==
    IF ~InTitleLower("#shorts", title)
    THEN LET cut == IF TitleLen(title) > TitleMax
                    THEN Slice(title, TitleCut) \o <<Piece("...", 3)>> ELSE title
         IN  RStripTitle(cut) \o ShortsViral
    ELSE RStripTitle(title) \o Viral

\* mutant: a title that has "#shorts" is left as it is
ensure_markers_shorts_only(title) ==
    IF ~InTitleLower("#shorts", title)
    THEN LET cut == IF TitleLen(title) > TitleMax
                    THEN Slice(title, TitleCut) \o <<Piece("...", 3)>> ELSE title
         IN  RStripTitle(cut) \o ShortsViral
    ELSE title

\* lines 511-518 of generate_viral_metadata
ensure_markers(title) ==
    IF ~InTitleLower("#shorts", title)
    THEN LET cut == IF TitleLen(title) > TitleMax
                    THEN Slice(title, TitleCut) \o <<Piece("...", 3)>> ELSE title
         IN  RStripTitle(cut) \o ShortsViral
    ELSE IF ~InTitleLower("#viral", title) THEN RStripTitle(title) \o Viral
    ELSE title

\* the titles a backend writes: n1 characters, a marker or none, n2
\* characters, a marker or none, sp blanks
TitleOf(n1, m1, n2, m2, sp) ==
    (IF n1 > 0 THEN <<Piece("text", n1)>> ELSE <<>>)
      \o (IF m1 \in Markers THEN <<Piece(m1, MarkerLen(m1))>> ELSE <<>>)
      \o (IF n2 > 0 THEN <<Piece("text", n2)>> ELSE <<>>)
      \o (IF m2 \in Markers THEN <<Piece(m2, MarkerLen(m2))>> ELSE <<>>)
      \o (IF sp > 0 THEN <<Piece("space", sp)>> ELSE <<>>)

Titles ==
    {TitleOf(n1, m1, n2, m2, sp) :
        n1 \in 0..MaxTitleLen, m1 \in Markers \cup {"none"}, n2 \in {0, 12},
        m2 \in Markers \cup {"none"}, sp \in {0, 2}}

\* --------------------------------------------------- result normalization
\* The parsed values the two callers of _generate_script look into: type
\* is the Python type, keys the keys of a mapping, title the value of its
\* key "title", items the elements of an array.
PyVal(type, keys, title, items) ==
    [type |-> type, keys |-> keys, title |-> title, items |-> items]
TitleStr(t) == [type |-> "string", pieces |-> t]
NoTitle == [type |-> "None", pieces |-> <<>>]
NumTitle == [type |-> "number", pieces |-> <<>>]
Dict(keys, title) == PyVal("object", keys, title, <<>>)
List(items) == PyVal("array", {}, NoTitle, items)
Scalar(type) == PyVal(type, {}, NoTitle, <<>>)

PlainTitle == TitleStr(TitleOf(5, "none", 0, "none", 0))
MarkedTitle == TitleStr(TitleOf(5, "#shorts", 0, "#viral", 0))

\* elements of an array: a mapping with a title, one without, a string, a
\* number
ElementValues ==
    {Dict({"title"}, PlainTitle), Dict({"hook"}, NoTitle), Scalar("string"),
     Scalar("number")}
Lists == UNION {{List(s) : s \in [1..n -> ElementValues]} : n \in 0..MaxList}
Scalars == {Scalar("string"), Scalar("number"), Scalar("None")}

\* what _generate_script returns to generate_viral_metadata
MetaResults ==
    {Dict({"title"}, TitleStr(t)) : t \in Titles}
      \cup {Dict({"title", "categoryId"}, MarkedTitle), Dict({"title"}, NoTitle),
            Dict({"title"}, NumTitle), Dict({"hook"}, NoTitle)}
      \cup Lists \cup Scalars

\* the scripts main gives to produce_video_from_script
Scripts ==
    {Dict({"hook"}, NoTitle), Dict({"title"}, PlainTitle)} \cup Lists \cup Scalars

\* generate_viral_metadata, lines 497-525, for the value _generate_script
\* returned: the list is unwrapped (498-503), the mapping validated
\* (506-508), the title completed (511-519; the lower() of a title that is
\* no string raises) and categoryId set (522-523)
generate_viral_metadata(res) ==
    LET listFails == /\ res.type = "array"
                     /\ ~(Len(res.items) > 0 /\ res.items[1].type = "object")
        r == IF res.type = "array" /\ ~listFails THEN res.items[1] ELSE res
    IN  IF listFails THEN Raised
        ELSE IF r.type # "object" \/ "title" \notin r.keys THEN Raised
        ELSE IF r.title.type # "string" THEN Raised
        ELSE Returned(Dict(r.keys \cup {"categoryId"},
                           TitleStr(ensure_markers(r.title.pieces))))

\* produce_video_from_script, lines 53-63 of main.py: what script is when
\* the director gets it.  The mapping of line 63 has the one key "content".
normalize_script(script) ==
    IF script.type = "array"
    THEN IF Len(script.items) = 1 /\ script.items[1].type = "object"
         THEN script.items[1]
         ELSE Dict({"content"}, NoTitle)
    ELSE script

MetadataCalls ==
    [fn : {"generate_viral_metadata"}, value : MetaResults]
      \cup [fn : {"produce_video_from_script"}, value : Scripts]

GenerateViralMetadata ==
    /\ output = Pending
    /\ input.fn = "generate_viral_metadata"
    /\ output' = generate_viral_metadata(input.value)
    /\ UNCHANGED <<config, current_key_index, client, pc, locals, result,
                   result_from, nreq, history, advCalls, advTrue, input, threads, slept>>

ProduceVideoFromScript ==
    /\ output = Pending
    /\ input.fn = "produce_video_from_script"
    /\ output' = Returned(normalize_script(input.value))
    /\ UNCHANGED <<config, current_key_index, client, pc, locals, result,
                   result_from, nreq, history, advCalls, advTrue, input, threads, slept>>

\* the two callers of _generate_script, for every value it may return
MetadataInit ==
    InitAgent /\ agent = "astrologer" /\ input \in MetadataCalls /\ output = Pending
MetadataSpec == MetadataInit /\ [][GenerateViralMetadata \/ ProduceVideoFromScript]_vars

\* ------------------------------------------------------ cleanup round trip
\* the JSON text of a value: the text json.loads reads the value from
json_dumps(v) ==
    IF v.type = "object" /\ v.body # <<>> /\ Head(v.body) = "k"
    THEN <<"{k:">> \o Tail(v.body) \o <<":k}">>
    ELSE <<CHOOSE tok \in ValueTokens : ValueOf(tok) = v>>

\* the strings of at most n characters
StringsUpTo(n) == UNION {[1..k -> ContentTokens] : k \in 0..n}

\* mappings with string leaves: the two of ValueTokens, and the mapping of
\* the key k to every short string
LeafMappings ==
    {ValueOf("{hook:x,love:y}"), ValueOf("{}")}
      \cup {[type |-> "object", body |-> <<"k">> \o s] : s \in StringsUpTo(MaxStr)}

\* lines 214-216 of _generate_script on the text of a response
NormalizeResponse ==
    /\ output = Pending
    /\ LET parsed == json_loads(CleanJson(json_dumps(input))) IN
       output' = IF parsed.ok THEN Returned(parsed.value) ELSE Raised
    /\ UNCHANGED <<config, current_key_index, client, pc, locals, result,
                   result_from, nreq, history, advCalls, advTrue, input, threads, slept>>

\* the cleanup of _generate_script on the JSON text of every mapping
RoundTripInit ==
    InitAgent /\ agent = "astrologer" /\ input \in LeafMappings /\ output = Pending
RoundTripSpec == RoundTripInit /\ [][NormalizeResponse]_vars

\* ------------------------------------------------------------ mock content
\* _get_mock_data(rashi, period_type).  A display name and a task label
\* are sequences of words; now is the day datetime.now(ist) shows.
Rashis == {<<"Mesh", " ", "(", "Aries", ")">>, <<"Mesh">>, <<"Tula", " ", "(", "Libra", ")">>}
PeriodTypes ==
    {<<"Metadata_", "Daily">>, <<"Metadata_", "Weekly">>, <<"Daily">>,
     <<"Weekly">>, <<"Monthly">>}
Days == 1..MaxDay

\* rashi.split('(')[0].strip() if '(' in rashi else rashi
RECURSIVE BeforeParen(_)
BeforeParen(s) ==
    IF s = <<>> \/ Head(s) = "(" THEN <<>> ELSE <<Head(s)>> \o BeforeParen(Tail(s))
clean_rashi(rashi) ==
    IF \E i \in 1..Len(rashi) : rashi[i] = "(" THEN Strip(BeforeParen(rashi))
    ELSE rashi

\* lines 246-307: the Metadata_ shape (title and description are built
\* from clean_rashi, rashi, the rest of the label and today_str, the date
\* of the clock), the Daily shape (built from rashi) and the generic shape
mock_data(rashi, period_type, now) ==
    IF Head(period_type) = "Metadata_"
    THEN [shape |-> "metadata",
          title |-> <<clean_rashi(rashi), now>>,
          text |-> <<rashi, SelectSeq(period_type, LAMBDA w : w # "Metadata_"), now>>]
    ELSE IF period_type = <<"Daily">>
    THEN [shape |-> "daily", title |-> <<>>, text |-> <<rashi>>]
    ELSE [shape |-> "generic", title |-> <<>>, text |-> <<>>]

\* one call of _get_mock_data on the arguments of input, at some time
GetMockData ==
    /\ \E now \in Days :
          LET v == mock_data(input.rashi, input.period_type, now) IN
          \/ output = Pending /\ output' = Returned(<<v>>)
          \/ /\ output.state = "returned" /\ Len(output.value) = 1
             /\ output' = Returned(Append(output.value, v))
    /\ UNCHANGED <<config, current_key_index, client, pc, locals, result,
                   result_from, nreq, history, advCalls, advTrue, input, threads, slept>>

\* two calls of _get_mock_data with the same arguments
MockInit ==
    /\ InitAgent /\ agent = "astrologer"
    /\ input \in [rashi : Rashis, period_type : PeriodTypes]
    /\ output = Pending
MockSpec == MockInit /\ [][GetMockData]_vars

\* ------------------------------------------- _generate_script as a function
\* _generate_script(rashi, date, period_type, ...) as a function of its
\* arguments args, of the instance cfg (keys: len(self.api_keys), n:
\* len(self.models), google: self.google_model is there, ganswer: what the
\* secondary provider answers) and of the answers the primary backend gives
\* to the calls in their order.  An answer is "ok" (JSON text), "badjson",
\* "err400" ("400" in str(e)), "err429" (an exception whose text has "429"
\* or "rate limit", whatever raised it) or "err" (any other exception).  st
\* holds the locals, the answers not yet given, the backend calls and
\* rotations made so far (events) and the lines logged with the label.
Answers == {"ok", "badjson", "err400", "err429", "err"}

\* mutant: requests for metadata never rotate the credential
RECURSIVE generate_script_label_steers(_, _, _)
generate_script_label_steers(args, cfg, st) ==
    IF st.i > cfg.n
    THEN LET ev == IF cfg.google THEN Append(st.events, <<"google">>) ELSE st.events
         IN  IF cfg.google /\ cfg.ganswer = "ok"
             THEN [kind |-> "returned", value |-> "secondary", message |-> <<>>,
                   events |-> ev, log |-> st.log]
             ELSE [kind |-> "raised", value |-> "none", message |-> args.rashi,
                   events |-> ev, log |-> st.log]
    ELSE
    LET a == IF st.ans = <<>> THEN "err" ELSE Head(st.ans)
        rest == IF st.ans = <<>> THEN <<>> ELSE Tail(st.ans)
        b == IF rest = <<>> THEN "err" ELSE Head(rest)
        retry == a = "err400"
        last == IF retry THEN b ELSE a
        left == IF retry /\ rest # <<>> THEN Tail(rest) ELSE rest
        ev == Append(st.events, <<"json", st.idx, st.i>>)
                \o (IF retry THEN <<<<"plain", st.idx, st.i>>>> ELSE <<>>)
        lg == Append(st.log, <<"casting", args.period_type, st.i>>)
        rl == last = "err429"
    IN  IF last = "ok"
        THEN [kind |-> "returned", value |-> "candidate", message |-> <<>>,
              events |-> ev, log |-> lg]
        ELSE IF rl /\ ~st.tried_backup /\ Head(args.period_type) # "Metadata_" /\ st.idx < cfg.keys - 1
        THEN generate_script_label_steers(args, cfg,
                 [i |-> 1, tried_backup |-> TRUE, idx |-> st.idx + 1, errors |-> 0,
                  ans |-> left, events |-> Append(ev, <<"switch", TRUE>>), log |-> lg])
        ELSE generate_script_label_steers(args, cfg,
                 [i |-> st.i + 1, tried_backup |-> st.tried_backup, idx |-> st.idx,
                  errors |-> st.errors + 1, ans |-> left,
                  events |-> IF rl /\ ~st.tried_backup /\ Head(args.period_type) # "Metadata_"
                             THEN Append(ev, <<"switch", FALSE>>) ELSE ev,
                  log |-> lg])

\* lines 179-243 from the head of the for loop on
RECURSIVE generate_script_from(_, _, _)
generate_script_from(args, cfg, st) ==
    IF st.i > cfg.n
    THEN LET ev == IF cfg.google THEN Append(st.events, <<"google">>) ELSE st.events
         IN  IF cfg.google /\ cfg.ganswer = "ok"
             THEN [kind |-> "returned", value |-> "secondary", message |-> <<>>,
                   events |-> ev, log |-> st.log]
             ELSE [kind |-> "raised", value |-> "none", message |-> args.rashi,
                   events |-> ev, log |-> st.log]
    ELSE
    LET a == IF st.ans = <<>> THEN "err" ELSE Head(st.ans)
        rest == IF st.ans = <<>> THEN <<>> ELSE Tail(st.ans)
        b == IF rest = <<>> THEN "err" ELSE Head(rest)
        retry == a = "err400"
        last == IF retry THEN b ELSE a
        left == IF retry /\ rest # <<>> THEN Tail(rest) ELSE rest
        ev == Append(st.events, <<"json", st.idx, st.i>>)
                \o (IF retry THEN <<<<"plain", st.idx, st.i>>>> ELSE <<>>)
        lg == Append(st.log, <<"casting", args.period_type, st.i>>)
        rl == last = "err429"
    IN  IF last = "ok"
        THEN [kind |-> "returned", value |-> "candidate", message |-> <<>>,
              events |-> ev, log |-> lg]
        ELSE IF rl /\ ~st.tried_backup /\ st.idx < cfg.keys - 1
        THEN generate_script_from(args, cfg,
                 [i |-> 1, tried_backup |-> TRUE, idx |-> st.idx + 1, errors |-> 0,
                  ans |-> left, events |-> Append(ev, <<"switch", TRUE>>), log |-> lg])
        ELSE generate_script_from(args, cfg,
                 [i |-> st.i + 1, tried_backup |-> st.tried_backup, idx |-> st.idx,
                  errors |-> st.errors + 1, ans |-> left,
                  events |-> IF rl /\ ~st.tried_backup
                             THEN Append(ev, <<"switch", FALSE>>) ELSE ev,
                  log |-> lg])

\* lines 176-178: errors = [], tried_backup = False
generate_script(args, cfg, answers) ==
    generate_script_from(args, cfg,
        [i |-> 1, tried_backup |-> FALSE, idx |-> 0, errors |-> 0, ans |-> answers,
         events |-> <<>>, log |-> <<>>])

\* the instances: no key (no candidates, a secondary provider), or one to
\* three keys and a ranking
Instances ==
    [keys : {0}, n : {0}, google : {TRUE}, ganswer : {"ok", "err"}]
      \cup [keys : 1..3, n : 1..MaxModels, google : {FALSE}, ganswer : {"err"}]
      \cup [keys : 1..3, n : 1..MaxModels, google : {TRUE}, ganswer : {"ok", "err"}]

LabelArgs == [rashi : {<<"Mesh">>, <<"Tula", " ", "(", "Libra", ")">>},
              period_type : {<<"Daily">>, <<"Metadata_", "Daily">>}]

\* two runs of _generate_script on equal instances against backends that
\* answer the same
GenerateScriptTwice ==
    /\ output = Pending
    /\ output' = Returned(<<generate_script(input.a, input.cfg, input.answers),
                            generate_script(input.b, input.cfg, input.answers)>>)
    /\ UNCHANGED <<config, current_key_index, client, pc, locals, result,
                   result_from, nreq, history, advCalls, advTrue, input, threads, slept>>

LabelInit ==
    /\ InitAgent /\ agent = "astrologer"
    /\ input \in [a : {[rashi |-> <<"Mesh">>, period_type |-> <<"Daily">>]},
                  b : LabelArgs, cfg : Instances,
                  answers : UNION {[1..k -> Answers] : k \in 0..MaxAnswers}]
    /\ output = Pending
LabelSpec == LabelInit /\ [][GenerateScriptTwice]_vars

\* ---------------------------------------------- requests on a shared instance
\* _switch_to_backup_key run by the thread t of a request, a step for every
\* read and write of the instance: the test of line 80, the read and the
\* write of  self.current_key_index += 1  (line 81) and _init_client
\* (line 83), whose api_keys[self.current_key_index] raises IndexError
\* beyond the last key.

\* mutant: the test of line 80 lets the last index through
SwitchCheckOffByOne(t) ==
    /\ pc = "idle" /\ api_keys # <<>>
    /\ threads[t].pc = "idle" /\ threads[t].calls < MaxCalls
    /\ threads' = [threads EXCEPT ![t] =
          [pc |-> IF current_key_index <= Len(api_keys) - 1 THEN "load" ELSE "idle",
           calls |-> @.calls + 1, checked |-> current_key_index,
           loaded |-> current_key_index]]
    /\ UNCHANGED <<config, current_key_index, client, pc, locals, result,
                   result_from, nreq, history, advCalls, advTrue, input, output, slept>>

SwitchCheck(t) ==
    /\ pc = "idle" /\ api_keys # <<>>
    /\ threads[t].pc = "idle" /\ threads[t].calls < MaxCalls
    /\ threads' = [threads EXCEPT ![t] =
          [pc |-> IF current_key_index < Len(api_keys) - 1 THEN "load" ELSE "idle",
           calls |-> @.calls + 1, checked |-> current_key_index,
           loaded |-> current_key_index]]
    /\ UNCHANGED <<config, current_key_index, client, pc, locals, result,
                   result_from, nreq, history, advCalls, advTrue, input, output, slept>>

SwitchLoad(t) ==
    /\ threads[t].pc = "load"
    /\ threads' = [threads EXCEPT ![t].pc = "store", ![t].loaded = current_key_index]
    /\ UNCHANGED <<config, current_key_index, client, pc, locals, result,
                   result_from, nreq, history, advCalls, advTrue, input, output, slept>>

SwitchStore(t) ==
    /\ threads[t].pc = "store"
    /\ current_key_index' = threads[t].loaded + 1
    /\ threads' = [threads EXCEPT ![t].pc = "init"]
    /\ UNCHANGED <<config, client, pc, locals, result, result_from, nreq,
                   history, advCalls, advTrue, input, output, slept>>

SwitchInitClient(t) ==
    /\ threads[t].pc = "init"
    /\ client' = IF current_key_index < Len(api_keys)
                 THEN api_keys[current_key_index + 1] ELSE client
    /\ threads' = [threads EXCEPT ![t].pc = "idle"]
    /\ UNCHANGED <<config, current_key_index, pc, locals, result, result_from,
                   nreq, history, advCalls, advTrue, input, output, slept>>

ThreadStep ==
    \E t \in Threads :
        SwitchCheck(t) \/ SwitchLoad(t) \/ SwitchStore(t) \/ SwitchInitClient(t)

\* an instance is constructed, and the requests of two threads rotate its
\* credential with no lock
ConcurrentNext == Construction \/ ThreadStep
ConcurrentSpec == Init /\ [][ConcurrentNext]_vars

\* --------------------------------------------------------------------- main
\* main() of main.py as a function of the command line (type, upload), of
\* the date (day: "jan_idx" when today is the rashi_idx-th of January,
\* "idx" when it is the rashi_idx-th of another month, "other"), and of
\* what the calls it makes do: gen[p] whether the astrologer's generation
\* of the period p raises, produce whether produce_video_from_script
\* raises, service is uploader.service, exists os.path.exists(path),
\* uploaded the result of upload_video.
Periods == {"Daily", "Yearly", "Monthly", "Daily_Remedy"}
MainInputs ==
    [type : {"shorts", "detailed"}, upload : BOOLEAN,
     day : {"jan_idx", "idx", "other"}, gen : [Periods -> {"ok", "raise"}],
     produce : {"ok", "raise"}, service : BOOLEAN, exists : BOOLEAN,
     uploaded : BOOLEAN]

\* one try block of main (lines 360-402, 412-433, 437-459, 463-487): the
\* script is generated and the video produced, or the exception is caught
TryPeriod(in, p) == in.gen[p] = "ok" /\ in.produce = "ok"

\* lines 307-567.  called: the periods whose generation main asked for;
\* generated: the periods in generated_content; exit: the exit status of
\* the process (1 for sys.exit(1) and for an exception that leaves main)
main(in) ==
    LET yearly == in.type = "detailed" /\ in.day = "jan_idx"
        yearlyDone == yearly /\ TryPeriod(in, "Yearly")
        monthly == /\ in.type = "detailed" /\ ~yearlyDone
                   /\ in.day \in {"jan_idx", "idx"}
        monthlyDone == monthly /\ TryPeriod(in, "Monthly")
        remedy == in.type = "detailed" /\ ~yearlyDone /\ ~monthlyDone
        remedyDone == remedy /\ TryPeriod(in, "Daily_Remedy")
        daily == in.type = "shorts"
        dailyDone == daily /\ TryPeriod(in, "Daily")
        called == {p \in Periods :
                     \/ p = "Daily" /\ daily
                     \/ p = "Yearly" /\ yearly
                     \/ p = "Monthly" /\ monthly
                     \/ p = "Daily_Remedy" /\ remedy}
        generated == {p \in Periods :
                        \/ p = "Daily" /\ dailyDone
                        \/ p = "Yearly" /\ yearlyDone
                        \/ p = "Monthly" /\ monthlyDone
                        \/ p = "Daily_Remedy" /\ remedyDone}
        exit == IF remedy /\ ~remedyDone THEN 1
                ELSE IF in.upload /\ generated # {}
                     THEN (IF in.service /\ in.exists /\ in.uploaded THEN 0 ELSE 1)
                ELSE IF in.upload THEN 1
                ELSE 0
    IN  [called |-> called, generated |-> generated, exit |-> exit]

Main ==
    /\ output = Pending
    /\ output' = Returned(main(input))
    /\ UNCHANGED <<config, current_key_index, client, pc, locals, result,
                   result_from, nreq, history, advCalls, advTrue, input, threads, slept>>

\* one run of main, for every command line, date and behaviour of the
\* calls
MainInit == InitAgent /\ agent = "astrologer" /\ input \in MainInputs /\ output = Pending
MainSpec == MainInit /\ [][Main]_vars

\* ------------------------------------------------------- the two cleanups
\* every text of at most MaxRaw tokens made of fences, the word json, white
\* space, prose and one JSON object, and the texts of the backends
RawTexts ==
    UNION {[1..k -> ContentTokens \cup {"{hook:x,love:y}"}] : k \in 0..MaxRaw}
      \cup Texts

\* lines 214-216 of _generate_script
NormalizePrimary(raw_content) == json_loads(CleanJson(raw_content))
\* lines 97-105 of AstrologerAgent._generate_with_google_ai
NormalizeSecondary(text) == json_loads(Strip(GoogleExtract(text)))

\* one provider text put through both
NormalizeBoth ==
    /\ output = Pending
    /\ output' = Returned([primary |-> NormalizePrimary(input),
                           secondary |-> NormalizeSecondary(input)])
    /\ UNCHANGED <<config, current_key_index, client, pc, locals, result,
                   result_from, nreq, history, advCalls, advTrue, input, threads, slept>>

CleanupInit ==
    InitAgent /\ agent = "astrologer" /\ input \in RawTexts /\ output = Pending
CleanupSpec == CleanupInit /\ [][NormalizeBoth]_vars

\* ------------------------------------------- the title post-processing twice
\* lines 510-519 of generate_viral_metadata on a title, and then on the
\* title they gave
MarkersFirst ==
    /\ output = Pending
    /\ output' = Returned(<<ensure_markers(input)>>)
    /\ UNCHANGED <<config, current_key_index, client, pc, locals, result,
                   result_from, nreq, history, advCalls, advTrue, input, threads, slept>>

MarkersAgain ==
    /\ output # Pending
    /\ Len(output.value) = 1
    /\ output' = Returned(output.value \o <<ensure_markers(output.value[1])>>)
    /\ UNCHANGED <<config, current_key_index, client, pc, locals, result,
                   result_from, nreq, history, advCalls, advTrue, input, threads, slept>>

MarkersInit ==
    InitAgent /\ agent = "astrologer" /\ input \in Titles /\ output = Pending
MarkersSpec == MarkersInit /\ [][MarkersFirst \/ MarkersAgain]_vars

\* ------------------------------------------ YouTubeUploader.generate_metadata
\* An eto name is one of the keys of ETO_KANJI (known; klen is the length of
\* its kanji as the file spells it) or any other string of len characters;
\* a date string has len characters, all digits or not; hash is
\* hash_val % len(title_hooks).
\* the characters of each title hook of lines 72-80 around eto_kanji
HookLens == <<32, 30, 29, 37, 33, 30, 30>>
MetadataInputs ==
    [eto_name : [known : {TRUE}, len : {3}, klen : {2, 3}]
                  \cup [known : {FALSE}, len : 1..MaxEtoLen, klen : {0}],
     date_str : [digits : BOOLEAN, len : 0..MaxDateLen],
     period_type : {"Daily", "Monthly", "Yearly", "Remedy"},
     hash : 0..(Len(HookLens) - 1)]

\* lines 88-97: the characters of the title ahead of " #shorts"; k is the
\* length of eto_kanji, ETO_KANJI.get(clean_key, eto_name) (lines 65-66)
TitleBody(in) ==
    LET k == IF in.eto_name.known THEN in.eto_name.klen ELSE in.eto_name.len IN
    CASE in.period_type = "Daily"   -> HookLens[in.hash + 1] + k + 5
      [] in.period_type = "Monthly" -> 32 + k + in.date_str.len
      [] in.period_type = "Yearly"  ->
             30 + k + (IF in.date_str.digits /\ in.date_str.len > 0
                       THEN in.date_str.len ELSE 4)
      [] OTHER                      -> 29 + k + in.date_str.len

\* lines 87-101: the title, as pieces
generate_metadata_title(in) ==
    LET title == <<Piece("text", TitleBody(in)), Piece("space", 1),
                   Piece("#shorts", 7)>>
    IN  IF TitleLen(title) > MetaTitleMax
        THEN Slice(title, MetaTitleCut)
               \o <<Piece("...", 3), Piece("space", 1), Piece("#shorts", 7)>>
        ELSE title

GenerateMetadata ==
    /\ output = Pending
    /\ output' = Returned(generate_metadata_title(input))
    /\ UNCHANGED <<config, current_key_index, client, pc, locals, result,
                   result_from, nreq, history, advCalls, advTrue, input, threads, slept>>

UploaderInit ==
    InitAgent /\ agent = "astrologer" /\ input \in MetadataInputs /\ output = Pending
UploaderSpec == UploaderInit /\ [][GenerateMetadata]_vars

\* ------------------------------- produce_video_from_script: smart trimming
\* line 72, and the list of line 230
priority_order ==
    <<"hook", "intro", "love", "career", "money", "health", "remedy",
      "lucky_color", "lucky_number", "lucky_dates", "lucky_months">>
drop_candidates == <<"intro", "health", "lucky_number", "lucky_color", "money">>

Range(s) == {s[i] : i \in 1..Len(s)}

\* Phase 1 leaves, for every active section, the duration of its audio in
\* section_audios, or no entry (0) when the audio failed.  Durations are
\* whole seconds; the sections of a video that is not Daily are ten times
\* as long.
TrimInputs ==
    [period_type : {"Daily", "Monthly"},
     audio : {f \in [Range(priority_order) -> {0, 10, MaxSectionDur}] :
                \A s \in Range(priority_order) :
                    s \notin Range(drop_candidates) => f[s] # 10}]

\* lines 214-217
TARGET_DURATION(period_type) ==
    IF period_type = "Daily" THEN TargetDaily ELSE TargetOther

RECURSIVE SumOver(_, _)
SumOver(f, S) ==
    IF S = {} THEN 0
    ELSE LET s == CHOOSE x \in S : TRUE IN f[s] + SumOver(f, S \ {s})

\* mutant: the loop of line 232 without the test of lines 233-234
RECURSIVE smart_trim_no_break(_, _, _)
smart_trim_no_break(st, target, i) ==
    IF i > Len(drop_candidates) THEN st
    ELSE LET candidate == drop_candidates[i] IN
         IF st.section_audios[candidate] > 0
         THEN smart_trim_no_break(
                  [section_audios |-> [st.section_audios EXCEPT ![candidate] = 0],
                   active_sections |-> SelectSeq(st.active_sections,
                                                 LAMBDA s : s # candidate),
                   total_duration |-> st.total_duration - st.section_audios[candidate],
                   dropped |-> Append(st.dropped,
                                      [section |-> candidate,
                                       before |-> st.total_duration])],
                  target, i + 1)
         ELSE smart_trim_no_break(st, target, i + 1)

\* lines 232-243: the loop over drop_candidates from the i-th on; dropped
\* is what the print of line 238 shows, with the total at that moment
RECURSIVE smart_trim(_, _, _)
smart_trim(st, target, i) ==
    IF i > Len(drop_candidates) \/ st.total_duration <= target THEN st
    ELSE LET candidate == drop_candidates[i] IN
         IF st.section_audios[candidate] > 0
         THEN smart_trim(
                  [section_audios |-> [st.section_audios EXCEPT ![candidate] = 0],
                   active_sections |-> SelectSeq(st.active_sections,
                                                 LAMBDA s : s # candidate),
                   total_duration |-> st.total_duration - st.section_audios[candidate],
                   dropped |-> Append(st.dropped,
                                      [section |-> candidate,
                                       before |-> st.total_duration])],
                  target, i + 1)
         ELSE smart_trim(st, target, i + 1)

\* lines 75-78, 205, 213-250: the active sections, the total of Phase 1,
\* the trimming, and the sections Phase 3 goes on to render
produce_video(in) ==
    LET scale == IF in.period_type = "Daily" THEN 1 ELSE 10
        audio == [s \in Range(priority_order) |-> in.audio[s] * scale]
        st0 == [section_audios |-> audio,
                active_sections |-> priority_order,
                total_duration |-> SumOver(audio, Range(priority_order)),
                dropped |-> <<>>]
        target == TARGET_DURATION(in.period_type)
        st == IF st0.total_duration > target THEN smart_trim(st0, target, 1)
              ELSE st0
    IN  [before |-> st0,
         after |-> st,
         rendered |-> SelectSeq(st.active_sections,
                                LAMBDA s : st.section_audios[s] > 0)]

SmartTrim ==
    /\ output = Pending
    /\ output' = Returned(produce_video(input))
    /\ UNCHANGED <<config, current_key_index, client, pc, locals, result,
                   result_from, nreq, history, advCalls, advTrue, input, threads, slept>>

TrimInit ==
    InitAgent /\ agent = "astrologer" /\ input \in TrimInputs /\ output = Pending
TrimSpec == TrimInit /\ [][SmartTrim]_vars

\* ------------------------------------------------------------------ claims
Done == pc \in {"returned", "raised"}
InRequest == pc \in {"for", "json_call", "plain_call", "google", "google_first", "outer"}

\* every backend call of the request so far ended as o
AllSeen(o) == \A p \in seen : p[2] = o
\* every backend call of the request made with credential k ended as o
AllUnder(k, o) == \A p \in seen : p[1] = k => p[2] = o
\* candidate m was given a backend call in this request
Attempted(m) == \E p \in tried : p[2] = m

\* C1: in _generate_script, with at least one candidate, no google_model and
\* a primary backend whose every call raises an error that is no rate limit,
\* the call raises, and by then every candidate of the list was attempted.
C1_HardFailExhaustion ==
    (/\ agent = "astrologer" /\ Done
     /\ models # <<>> /\ ~google_model
     /\ AllSeen("failure"))
    => (pc = "raised" /\ \A i \in 1..Len(models) : Attempted(models[i]))

C1_Witness ==
    /\ agent = "astrologer" /\ pc = "raised"
    /\ Len(models) >= 2 /\ ~google_model
    /\ seen # {} /\ AllSeen("failure")

\* the scenario of C2: two credentials, backend calls were made, each one
\* under the first credential raised a rate-limit error and each one under
\* the second returned a JSON text
C2_Scenario ==
    /\ Done /\ Len(api_keys) = 2 /\ seen # {}
    /\ AllUnder("key1", "rate_limit") /\ AllUnder("key2", "ok")

ObjectTexts == {Bare("{hook:x,love:y}"), Bare("{}"), FenceInString}

\* C3: when every candidate attempt of _generate_script is rate-limited and
\* the secondary provider answers a JSON object in a markdown fence, the
\* request returns exactly that object, a mapping, and does not raise.
C3_SecondaryFallback ==
    \A body \in ObjectTexts :
        (/\ agent = "astrologer" /\ Done
         /\ seen # {} /\ AllSeen("rate_limit")
         /\ google_resp.kind = "text"
         /\ google_resp.text \in {FencedJson(body), FencedPlain(body)})
        => (/\ pc = "returned"
            /\ result = json_loads(body).value
            /\ IsMapping(result))

\* The steps a running request can still take are bounded by Rank, which
\* every step of a request lowers: a pass costs three steps for a candidate
\* of _generate_script (loop head, JSON call, plain-text call) and two for
\* one of create_screenplay, and the passes left are bounded by the one
\* rotation (tried_backup) and by range(2).
Rank ==
    LET n == Len(models)
        left == n - model_i + 1
        more == IF ~tried_backup /\ current_key_index < Len(api_keys) - 1
                THEN 3 * n + 1 ELSE 0
        pass == 2 * n + 3
        after == (DirectorLoops - loop_i - 1) * pass
    IN  IF agent = "astrologer"
        THEN CASE pc = "for"        -> 2 + more + 3 * left
               [] pc = "json_call"  -> 1 + more + 3 * left
               [] pc = "plain_call" -> more + 3 * left
               [] pc = "google"     -> 1
               [] OTHER             -> 0
        ELSE CASE pc = "google_first" -> 2 + DirectorLoops * pass
               [] pc = "outer"        -> 1 + (DirectorLoops - loop_i) * pass
               [] pc = "for"          -> 1 + after + 2 * left + 2
               [] pc = "json_call"    -> 1 + after + 2 * left + 1
               [] OTHER               -> 0

\* C4: one generate call (_generate_script, create_screenplay) ends,
\* whatever the backends answer and however many credentials are loaded: a
\* running request can always take a step, every step lowers Rank, which
\* stays at or above 0, and the for loop over the candidates is entered at
\* most twice in one call.
C4_Termination ==
    /\ [](InRequest => ENABLED RequestStep)
    /\ [][InRequest => Rank' < Rank]_vars
    /\ [](Rank >= 0 /\ passes <= 2)

C4_Witness == Done /\ passes = 2 /\ Len(api_keys) = 3 /\ Len(models) >= 2

\* C5: whenever _generate_script returns, the value is a mapping.
C5_ResultIsMapping ==
    (agent = "astrologer" /\ pc = "returned") => IsMapping(result)

\* C6: on a list of L >= 1 credentials, starting at index 0, of N calls of
\* _switch_to_backup_key exactly min(N, L-1) return True (the first ones,
\* as this holds after every call), and from then on the current credential
\* is the last one of the list.
C6_AdvanceCount ==
    api_keys # <<>> =>
        /\ advTrue = Min(advCalls, Len(api_keys) - 1)
        /\ current_key_index \in 0..(Len(api_keys) - 1)
        /\ advCalls >= Len(api_keys) - 1 =>
              api_keys[current_key_index + 1] = api_keys[Len(api_keys)]

C6_Witness ==
    Len(api_keys) = 3 /\ advTrue = 2 /\ advCalls >= 4

\* the index in api_keys of the credential self.client was built from
ClientIndex ==
    IF client = "None" THEN -1
    ELSE CHOOSE i \in 0..(Len(api_keys) - 1) : api_keys[i + 1] = client

\* C7: over the requests of one instance the active index never goes down
\* (no request resets it), and a backend call is never made with a
\* credential the index has advanced past.
C7_MonotoneIndex ==
    [][/\ current_key_index' >= current_key_index
       /\ pc \in {"json_call", "plain_call"} => ClientIndex >= current_key_index]_vars

C7_Witness ==
    nreq = 2 /\ start_index >= 1 /\ pc = "json_call" /\ client = "key2"

\* C8: a call of _switch_to_backup_key that returns False leaves the index
\* and the client as they were, the index at the last position.
C8_FailedAdvance ==
    [][(advCalls' = advCalls + 1 /\ advTrue' = advTrue)
        => /\ current_key_index' = current_key_index
           /\ client' = client
           /\ current_key_index' = Len(api_keys) - 1]_vars

C8_Witness ==
    Len(api_keys) >= 2 /\ advCalls >= advTrue + 2

\* C9: a request of _generate_script whose every primary attempt is
\* rate-limited reaches the secondary fallback or its end only after every
\* loaded credential from the one active at its start through the last was
\* tried, the last one with the whole candidate list.
C9_AllCredentialsTried ==
    (/\ agent = "astrologer" /\ (pc = "google" \/ Done)
     /\ seen # {} /\ AllSeen("rate_limit"))
    => /\ \A k \in (start_index + 1)..Len(api_keys) :
             \E i \in 1..Len(models) : <<api_keys[k], models[i]>> \in tried
       /\ \A i \in 1..Len(models) :
             <<api_keys[Len(api_keys)], models[i]>> \in tried

\* the priority attempt failed: the call raised, or its text is no JSON
GoogleFailed(r) ==
    \/ r.kind = "error"
    \/ r.kind = "text" /\ ~json_loads(Strip(GoogleExtract(r.text))).ok

\* C10: in create_screenplay with candidates to try, when the prioritized
\* attempt of the secondary provider fails, the request goes on to the
\* candidate loop and tries primary candidates before it returns anything.
C10_PriorityFailureFallsThrough ==
    (/\ agent = "director" /\ pc = "returned"
     /\ models # <<>>
     /\ google_model /\ GoogleFailed(google_resp))
    => (passes >= 1 /\ tried # {} /\ result_from # "secondary")

\* the secondary provider gave _generate_script nothing it can use
SecondaryFailed == ~Truthy(AstroGoogleResult(google_resp))

\* C11: _generate_script never returns the canned content of _get_mock_data:
\* what it returns is what a candidate or the secondary provider gave; and
\* when every candidate attempt and the secondary provider failed, the call
\* raises and returns no value.
C11_NeverFabricates ==
    (agent = "astrologer" /\ Done) =>
        /\ pc = "returned" =>
               /\ result_from \in {"candidate", "secondary"}
               /\ result # get_mock_data
        /\ (~(\E q \in seen : q[2] = "ok") /\ SecondaryFailed) =>
               (pc = "raised" /\ result = NoneVal /\ result_from = "none")

C11_Witness ==
    /\ agent = "astrologer" /\ pc = "raised"
    /\ seen # {} /\ google_resp.kind = "error"

\* the value of the key "mood" and the keys of the mapping "scenes" of a
\* screenplay of create_screenplay
Mood(v) == IF Len(v.body) >= 2 /\ v.body[1] = "mood" THEN v.body[2] ELSE "none"
SceneKeys(v) ==
    IF Len(v.body) >= 4 /\ v.body[3] = "scenes"
    THEN {v.body[i] : i \in 5..Len(v.body)} ELSE {}

\* no live path of create_screenplay gave it a value: no candidate call was
\* answered with JSON, and the secondary provider raised, answered no JSON
\* or answered a value that line 195 takes for a failure
DirectorLiveFailed ==
    /\ ~(\E q \in seen : q[2] = "ok")
    /\ google_model =>
           (GoogleFailed(google_resp) \/ ~Truthy(DirectorGoogleResult(google_resp)))

\* C12: create_screenplay never raises; and when every live path failed it
\* returns a fallback screenplay, a mapping whose mood is "zen" and whose
\* scenes have the six keys hook, love, career, money, health, lucky_item.
C12_SafeDefaultNeverRaises ==
    agent = "director" =>
        /\ pc # "raised"
        /\ (Done /\ DirectorLiveFailed) =>
               /\ pc = "returned"
               /\ result \in {FallbackScreenplay, GoogleFailureScreenplay}
               /\ IsMapping(result)
               /\ Mood(result) = "zen"
               /\ SceneKeys(result) = {"hook", "love", "career", "money", "health",
                                       "lucky_item"}

C12_Witness ==
    /\ agent = "director" /\ pc = "returned"
    /\ DirectorLiveFailed /\ google_model /\ google_resp.kind = "text"
    /\ seen # {} /\ result = FallbackScreenplay

\* ------------------------------------------------------- model discovery
Ranked == output.state = "returned"
\* the catalog answered 200 with a list, and some entry of it costs nothing
HasFreeEntry ==
    /\ input.status = "200" /\ input.json = "list"
    /\ \E i \in 1..Len(input.data) : IsFree(input.data[i])
\* the scores of a ranking never go up
NonIncreasing(a, ids) ==
    \A i, j \in 1..Len(ids) : i < j => Score(a, ids[i]) >= Score(a, ids[j])

\* C13: for every 200 catalog with at least one entry whose two prices are
\* zero, model discovery returns a list that is not empty, has at most 5
\* ids (at most 3 in the director) and whose scores never go up.
C13_RankingShape ==
    (output # Pending /\ HasFreeEntry) =>
        /\ Ranked
        /\ output.value # <<>>
        /\ Len(output.value) <= 5
        /\ Len(output.value) <= TopN(agent)
        /\ NonIncreasing(agent, output.value)

C13_Witness ==
    /\ Ranked /\ HasFreeEntry /\ agent = "astrologer"
    /\ Len(input.data) = 6 /\ Len(output.value) = 5
    /\ output.value # Take(free_models(input.data), 5)
    /\ Score(agent, output.value[1]) > Score(agent, output.value[5])

\* discovery failed: requests.get raised, the status is not 200, or the
\* catalog has no entry whose two prices are zero
DiscoveryFailed ==
    \/ input.status # "200"
    \/ input.json # "list"
    \/ \A i \in 1..Len(input.data) : ~IsFree(input.data[i])

\* C14: for every discovery failure both get_best_free_models and
\* _get_best_free_models return the same fixed list of two ids.
C14_DefaultOnFailure ==
    (output # Pending /\ DiscoveryFailed) =>
        /\ Ranked
        /\ Len(output.value) = 2
        /\ output.value = <<IdGemini, IdLlama>>

\* the two prices of an entry are the string "0"
ZeroPriced(m) == m.pricing = "dict" /\ m.prompt = "0" /\ m.completion = "0"
\* the result is built from the catalog: nothing raised, and the filter
\* left something to rank
FromCatalog ==
    /\ Ranked /\ ~TryRaises(input)
    /\ input.status = "200" /\ input.json = "list"
    /\ \E i \in 1..Len(input.data) : ZeroPriced(input.data[i])

\* C15: every id of a ranking built from the live catalog is the id of an
\* entry whose two prices are zero, and an entry with a price that is not
\* zero or is missing does not get its id into the ranking.
C15_FreeTierFilter ==
    FromCatalog =>
        /\ \A k \in 1..Len(output.value) :
               \E i \in 1..Len(input.data) :
                   ZeroPriced(input.data[i]) /\ input.data[i].id = output.value[k]
        /\ \A i \in 1..Len(input.data) :
               (/\ ~ZeroPriced(input.data[i])
                /\ \A j \in 1..Len(input.data) :
                       ZeroPriced(input.data[j]) => input.data[j].id # input.data[i].id)
               => \A k \in 1..Len(output.value) : output.value[k] # input.data[i].id

C15_Witness ==
    /\ FromCatalog /\ Len(output.value) = 2
    /\ \E i \in 1..Len(input.data) :
           /\ input.data[i].prompt = "0" /\ input.data[i].completion # "0"
           /\ i < Len(input.data)

\* C16: model discovery returns a list to its caller and raises nothing,
\* whatever the catalog answers: a network error, a status that is not
\* 200, a body without a data list, entries without id or pricing.
C16_RankingNeverRaises ==
    output # Pending =>
        /\ output.state = "returned"
        /\ output.value \in Seq({IdGemini, IdLlama, IdNano, IdDeepseek, IdPhi})
        /\ Len(output.value) >= 1

C16_Witness ==
    /\ Ranked /\ input.status = "200" /\ input.json = "list"
    /\ \E i \in 1..Len(input.data) : ~input.data[i].hasId /\ i > 1
    /\ output.value = DefaultModels(agent)

\* ------------------------------------------------- result normalization
\* C17: an array with exactly one mapping is unwrapped to that mapping; an
\* array with more than one element, or with elements that are no
\* mappings, is flagged as a failure and never becomes a mapping
\* (generate_viral_metadata, produce_video_from_script).
C17_ArrayNormalization ==
    (output # Pending /\ input.value.type = "array") =>
        LET items == input.value.items
            single == Len(items) = 1 /\ items[1].type = "object"
        IN  /\ single =>
                   IF input.fn = "produce_video_from_script"
                   THEN output = Returned(items[1])
                   ELSE output = generate_viral_metadata(items[1])
            /\ ~single =>
                   ~(output.state = "returned" /\ output.value.type = "object")

\* C18: for every mapping x with string leaves, strings that hold a code
\* fence included, the cleanup and parse of _generate_script on the JSON
\* text of x gives x again.
C18_RoundTrip ==
    output # Pending => output = Returned(input)

\* ------------------------------------------------------------------ titles
\* generate_viral_metadata returned; the title the backend gave, and the
\* title returned
MetadataReturned ==
    input.fn = "generate_viral_metadata" /\ output.state = "returned"
BackendTitle ==
    IF input.value.type = "array" THEN input.value.items[1].title.pieces
    ELSE input.value.title.pieces
ReturnedTitle == output.value.title.pieces
EndsWith(t, suffix) ==
    Len(t) >= Len(suffix) /\ SubSeq(t, Len(t) - Len(suffix) + 1, Len(t)) = suffix

\* C19: whatever title the backend gave, with or without either marker and
\* in any letter case, the title generate_viral_metadata returns has
\* "#shorts" and "#viral" in its lower case, and when the backend's title
\* had no "#shorts" it ends with " #shorts #viral".
C19_MandatoryMarkers ==
    MetadataReturned =>
        /\ InTitleLower("#shorts", ReturnedTitle)
        /\ InTitleLower("#viral", ReturnedTitle)
        /\ ~InTitleLower("#shorts", BackendTitle) =>
               EndsWith(ReturnedTitle, ShortsViral)

C19_Witness ==
    /\ MetadataReturned
    /\ InTitleLower("#shorts", BackendTitle)
    /\ ~InTitleLower("#viral", BackendTitle)
    /\ \E i \in 1..Len(BackendTitle) : BackendTitle[i].k = "#SHORTS"
    /\ EndsWith(ReturnedTitle, Viral)

\* C20: the title generate_viral_metadata returns, markers included, has at
\* most the 80 characters the code truncates against: a title of 75
\* characters without markers, and a title of any length that misses one
\* marker only.
C20_TitleLengthBound ==
    MetadataReturned => TitleLen(ReturnedTitle) <= TitleMax

\* ------------------------------------------------------------ mock content
\* C21: two calls of _get_mock_data with the same task label and the same
\* display name return the same output, in the Daily shape, the Metadata_
\* shape and the generic shape: the output depends on its inputs only.
C21_MockDataPure ==
    (output.state = "returned" /\ Len(output.value) = 2) =>
        output.value[1] = output.value[2]

\* ------------------------------------------------------------ construction
\* C22: constructing an agent when neither the arguments nor the
\* environment give a primary, a backup or a secondary-provider credential
\* fails with the configuration error, in AstrologerAgent.__init__ and in
\* DirectorAgent.__init__ alike.
C22_ConfigurationError ==
    [][(\E available \in BOOLEAN, n \in 1..MaxModels :
            Construct(FALSE, FALSE, FALSE, FALSE, available, n))
       => pc' = "config_error"]_vars

\* C23: with no primary credential and a secondary provider, construction
\* succeeds, and no generate call makes a primary backend call or comes to
\* a rotation: it resolves through the secondary provider or through the
\* terminal policy (the raise, the fallback screenplay).
C23_PrimaryDisabled ==
    (api_keys = <<>> /\ pc \notin {"new", "config_error"}) =>
        /\ google_model /\ models = <<>> /\ client = "None"
        /\ tried = {} /\ seen = {}
        /\ pc \notin {"json_call", "plain_call"}
        /\ current_key_index = 0 /\ ~tried_backup
        /\ pc = "returned" => result_from \in {"secondary", "safe_default"}

C23_Witness ==
    /\ api_keys = <<>> /\ google_model /\ nreq = 2
    /\ pc = "raised" /\ google_resp.kind = "text"

\* ------------------------------------------------------------- task label
\* C24: two runs of _generate_script that differ in the task label
\* (period_type) and in rashi only, against backends that answer the same,
\* make the same backend calls, rotations and fallbacks in the same order
\* and end the same way: the same value returned, or both raise.
C24_LabelDoesNotSteer ==
    output # Pending =>
        LET r1 == output.value[1]
            r2 == output.value[2]
        IN  /\ r1.events = r2.events
            /\ r1.kind = r2.kind
            /\ r1.value = r2.value

C24_Witness ==
    /\ output # Pending
    /\ input.b.period_type # input.a.period_type
    /\ output.value[1].log # output.value[2].log
    /\ <<"switch", TRUE>> \in {output.value[2].events[i] :
                                  i \in 1..Len(output.value[2].events)}
    /\ output.value[2].kind = "raised"
    /\ output.value[1].message # output.value[2].message

\* ---------------------------------------------- requests on a shared instance
PastLast == api_keys # <<>> /\ current_key_index > Len(api_keys) - 1

\* C25: when two requests run on one instance at the same time, the test
\* and the increment of _switch_to_backup_key can interleave so that
\* current_key_index goes past len(api_keys) - 1.  The index goes past the
\* last one only by the write of a thread whose test read an index that
\* another thread has changed since, and never while one thread alone has
\* called _switch_to_backup_key.
C25_SharedInstanceUnsafe ==
    /\ []((\E t \in Threads : threads[t].calls = 0) => ~PastLast)
    /\ [][(PastLast' /\ ~PastLast) =>
            \E t \in Threads :
                /\ threads[t].pc = "store"
                /\ threads[t].loaded > threads[t].checked
                /\ threads[3 - t].calls > 0]_vars

C25_Witness ==
    /\ PastLast /\ Len(api_keys) = 2 /\ current_key_index = 2
    /\ \A t \in Threads : threads[t].pc = "idle" /\ threads[t].calls = 1

\* --------------------------------------------------------------------- main
\* C26: whenever a script generation that main asked for raises, main ends
\* with an exit status that is not 0, in shorts mode and in detailed mode,
\* with and without --upload.
C26_HardFailureAborts ==
    (/\ output # Pending
     /\ \E p \in output.value.called : input.gen[p] = "raise")
    => output.value.exit # 0

\* a step of a request in which the credential was rotated
Rotates == InRequest /\ current_key_index' # current_key_index

\* C27: in both agents, a request in which the credential was rotated does
\* not end before the first candidate of the list was called with the new
\* credential; in _generate_script the rotating step itself goes back to the
\* first candidate with an empty error list.
C27_RestartAfterRotation ==
    /\ [][(Rotates /\ agent = "astrologer")
          => (pc' = "for" /\ model_i' = 1 /\ errors' = 0)]_vars
    /\ []((Done /\ current_key_index # start_index)
          => <<client, models[1]>> \in tried)

\* the step is the structured-mode call of the current candidate, answered r
StructuredCall(r, p429) ==
    GenerateScriptJsonCall(r, p429) \/ CreateScreenplayCall(r, p429)
\* r is an exception whose text holds "400"
BadRequest(r) == r.kind = "error" /\ r.s400

\* C28: in both agents a structured-mode call that fails with a bad-request
\* error is followed by the plain-text call of the same candidate; the
\* plain-text call is made only after such a failure, and after it fails no
\* further call goes to that candidate in the pass.
C28_PlainTextRetry ==
    [][/\ \A r \in Responses, p429 \in BOOLEAN :
            StructuredCall(r, p429)
            => IF BadRequest(r)
               THEN pc' = "plain_call" /\ model_i' = model_i
               ELSE pc' # "plain_call"
       /\ pc' = "plain_call" => pc = "json_call"
       /\ pc = "plain_call"
          => \/ pc' = "returned"
             \/ pc' = "for" /\ (model_i' = model_i + 1 \/ passes' = passes + 1)
      ]_vars

\* a step in which a backend call failed and the credential stayed
FailsWithoutRotation ==
    /\ pc \in {"json_call", "plain_call"}
    /\ pc' \notin {"returned", "plain_call"}
    /\ current_key_index' = current_key_index

\* C29: in both agents a candidate is called only when every candidate
\* before it in the list was called with the current credential; a failure
\* that rotates nothing moves to the next candidate of the list, or (the
\* daily limit of create_screenplay) ends the pass; and a call is made only
\* on the candidate the loop stands at.
C29_RankedOrder ==
    /\ [](pc \in {"json_call", "plain_call"}
          => /\ model_i \in 1..Len(models)
             /\ \A j \in 1..(model_i - 1) : <<client, models[j]>> \in tried)
    /\ [][/\ FailsWithoutRotation
             => \/ pc' = "for" /\ model_i' = model_i + 1
                \/ pc' = "outer" /\ daily_limit_hit'
          /\ pc' = "json_call" => (pc = "for" /\ model_i' = model_i)
         ]_vars

C29_Witness ==
    /\ pc = "json_call" /\ model_i = 2
    /\ Len(api_keys) = 1
    /\ <<client, "rate_limit">> \in seen

\* the step is a call of _generate_script's current candidate that returned
\* the text of r, which is no JSON document once the fences are removed
ReturnsMalformed(r, p429) ==
    /\ r.kind = "text"
    /\ ~json_loads(CleanJson(r.text)).ok
    /\ GenerateScriptJsonCall(r, p429) \/ GenerateScriptPlainCall(r, p429)

\* C30: in _generate_script a candidate whose text is no valid JSON after
\* fence removal is recorded as one more error and followed by the next
\* candidate, the credential and the client staying as they were.
C30_MalformedIsOrdinaryFailure ==
    [][\A r \in Responses, p429 \in BOOLEAN :
          ReturnsMalformed(r, p429)
          => /\ pc' = "for"
             /\ model_i' = model_i + 1
             /\ errors' = errors + 1
             /\ UNCHANGED <<current_key_index, client>>
      ]_vars

\* C31: when a request returns the parsed answer of a candidate
\* (_generate_script, create_screenplay) or of the prioritized secondary
\* provider (create_screenplay), a sleep has taken place after the backend
\* answered.
C31_CooldownBeforeReturn ==
    (/\ pc = "returned"
     /\ \/ result_from = "candidate"
        \/ agent = "director" /\ result_from = "secondary")
    => slept > 0

\* the instance stands at a call of _generate_with_google_ai that reaches
\* google_model.generate_content
AtSecondaryCall == pc \in {"google", "google_first"} /\ google_model

\* C32: in both agents a request of an instance with a google_model that
\* ends without the answer of a primary candidate has called the secondary
\* provider, and no request calls it a second time.
C32_SecondaryTriedOnce ==
    /\ []((Done /\ google_model /\ result_from # "candidate")
          => google_resp # NoResponse)
    /\ [][/\ AtSecondaryCall
             => (google_resp = NoResponse /\ google_resp' # NoResponse)
          /\ google_resp' # google_resp
             => (AtSecondaryCall \/ google_resp' = NoResponse)
         ]_vars

C32_Witness ==
    /\ agent = "astrologer" /\ Done /\ google_model
    /\ seen # {} /\ AllSeen("failure")
    /\ google_resp # NoResponse

\* C33: once an agent with at least one credential is constructed, the
\* active index is a position of api_keys and the client is the one built
\* from the credential at that position, in both agents and at every point
\* of every request.
C33_IndexInBounds ==
    (pc \notin {"new", "config_error"} /\ api_keys # <<>>)
    => /\ 0 <= current_key_index
       /\ current_key_index <= Len(api_keys) - 1
       /\ client = api_keys[current_key_index + 1]

C33_Witness ==
    /\ pc = "json_call"
    /\ Len(api_keys) = 3 /\ current_key_index = 2 /\ client = "key3"
    /\ nreq = 2

\* C34: in both agents the active index at any point of a request is at
\* most one above the index the request began with, and tried_backup, once
\* set, stays set until the request is over.
C34_OneRotationPerRequest ==
    /\ []((InRequest \/ Done)
          => /\ current_key_index >= start_index
             /\ current_key_index <= start_index + 1
             /\ tried_backup <=> current_key_index = start_index + 1)
    /\ [][(tried_backup /\ pc' # "idle") => tried_backup']_vars

C34_Witness ==
    /\ Done /\ Len(api_keys) = 3
    /\ start_index = 0 /\ current_key_index = 1
    /\ <<"key2", "rate_limit">> \in seen

\* a backend call of the request returned text that parsed as JSON: a
\* candidate, or the prioritized Google call of create_screenplay
PrimaryParsed == \E p \in seen : p[2] = "ok"
SecondaryParsed ==
    /\ agent = "director"
    /\ google_resp.kind = "text"
    /\ json_loads(Strip(GoogleExtract(google_resp.text))).ok

\* C35: in both agents, from the moment a candidate or the prioritized
\* secondary provider has returned text that parses as JSON, the request
\* stands at its return: it makes no further backend call, rotation or
\* secondary call.
C35_NothingAfterSuccess ==
    /\ []((PrimaryParsed \/ SecondaryParsed) => pc = "returned")
    /\ [][pc = "returned"
          => /\ pc' = "idle"
             /\ UNCHANGED <<current_key_index, client, advCalls>>]_vars

\* C36: in create_screenplay, once daily_limit_hit is set the request makes
\* no backend call and no rotation, enters no further pass, and returns the
\* fixed fallback screenplay.
C36_DailyLimitShortCircuit ==
    /\ []((agent = "director" /\ daily_limit_hit)
          => /\ pc \in {"outer", "returned"}
             /\ pc = "returned"
                => (result = FallbackScreenplay /\ result_from = "safe_default"))
    /\ [][(daily_limit_hit /\ pc' # "idle")
          => /\ daily_limit_hit'
             /\ UNCHANGED <<tried, seen, passes, current_key_index, client>>]_vars

C36_Witness ==
    /\ agent = "director" /\ Done /\ daily_limit_hit
    /\ Len(models) = 2 /\ Cardinality(tried) = 1
    /\ Len(api_keys) = 2 /\ current_key_index = 0
    /\ passes = 1

\* C37: for every raw provider text the cleanup of _generate_script and the
\* cleanup of _generate_with_google_ai either both fail to parse or both
\* parse to the same value.
C37_CleanupsAgree ==
    output # Pending
    => /\ output.value.primary.ok = output.value.secondary.ok
       /\ output.value.primary.value = output.value.secondary.value

\* C38: for every title, the marker post-processing of
\* generate_viral_metadata applied to a title it has processed gives that
\* title back unchanged.
C38_MarkersIdempotent ==
    (output # Pending /\ Len(output.value) = 2)
    => output.value[2] = output.value[1]

C38_Witness ==
    /\ output # Pending /\ Len(output.value) = 2
    /\ ~InTitleLower("#shorts", input)
    /\ TitleLen(input) > TitleMax
    /\ output.value[1] # input
    /\ \E i \in 1..Len(output.value[1]) : output.value[1][i].k = "..."

\* C39: for every eto name, date string and period type the title of
\* YouTubeUploader.generate_metadata has "#shorts" and at most 80
\* characters, also when the title before truncation has more than 80.
C39_LocalTitleBound ==
    output # Pending
    => /\ InTitleLower("#shorts", output.value)
       /\ TitleLen(output.value) <= MetaTitleMax

\* the position of a section in drop_candidates
DropIndex(s) == CHOOSE i \in 1..Len(drop_candidates) : drop_candidates[i] = s

\* C40: the sections the trimming removes are drop candidates, removed in
\* the order of that list and each only while the total is above the
\* target, with no candidate that has audio passed over; hook, love, career
\* and remedy stay; the total goes down by the durations of the removed
\* sections; and no removed section is rendered.
C40_SmartTrimming ==
    output # Pending =>
        LET o == output.value
            d == o.after.dropped
            target == TARGET_DURATION(input.period_type)
            removed == {d[k].section : k \in 1..Len(d)}
        IN  /\ removed \subseteq Range(drop_candidates)
            /\ \A k \in 1..Len(d) : d[k].before > target
            /\ \A j, k \in 1..Len(d) :
                   j < k => DropIndex(d[j].section) < DropIndex(d[k].section)
            /\ \A s \in Range(drop_candidates) \ removed :
                   (o.before.section_audios[s] > 0 /\ o.after.total_duration > target)
                   => FALSE
            /\ \A s \in Range(drop_candidates) \ removed, k \in 1..Len(d) :
                   (o.before.section_audios[s] > 0
                    /\ DropIndex(s) < DropIndex(d[k].section)) => FALSE
            /\ \A s \in {"hook", "love", "career", "remedy"} :
                   o.after.section_audios[s] = o.before.section_audios[s]
            /\ o.after.total_duration
                   = o.before.total_duration - SumOver(o.before.section_audios, removed)
            /\ \A k \in 1..Len(d) :
                   d[k].before - o.before.section_audios[d[k].section]
                       = IF k < Len(d) THEN d[k + 1].before
                         ELSE o.after.total_duration
            /\ Range(o.rendered) \cap removed = {}

C40_Witness ==
    /\ output # Pending
    /\ Len(output.value.after.dropped) = 2
    /\ output.value.after.total_duration <= TARGET_DURATION(input.period_type)
    /\ input.audio["money"] > 0
    /\ input.audio["intro"] = 0
    /\ input.period_type = "Monthly"

====
